---------------------------- MODULE Spec2Model ----------------------------
(***************************************************************************)
(* A model of the ROHDE&SCHWARZ CMD57 driver of python-scpi:               *)
(*   - rs232(), the connection bootstrap of scpi/devices/cmd57.py, step by *)
(*     step over the serial handles it opens;                              *)
(*   - cmd57.__init__ and cmd57.set_timeout;                               *)
(*   - the command/response engine the driver calls into (self.scpi), of   *)
(*     which the repository's driver file holds only the calls.            *)
(* The instrument and the serial line are the environment.                 *)
(***************************************************************************)
EXTENDS Integers, Sequences, FiniteSets, TLC

\* ------------------------------------------------------------------ bounds
\* Engine operations issued on one Device Connection.
MaxOps == 3
\* set_timeout is called with 1..MaxTimeoutInput, its default argument or the
\* value __init__ sets.
MaxTimeoutInput == 2
\* close() calls on one Device Connection.
MaxCloses == 2

\* ------------------------------------------------------- program constants
DefaultBaud == 2400
TargetBaud == 9600
InitCommandTimeout == 60
InitAskDefaultWait == 0
SetTimeoutDefaultArg == 10

VARIABLES
    bpc,              \* rs232(): the statement reached
    bfail,            \* rs232(): the statement that raised, or "none"
    handles,          \* the serial handles created so far, in creation order
    instrBaud,        \* the rate the instrument's serial port runs at
    errq,             \* the instrument's error queue: pending fault codes
    pending,          \* reply lines the instrument has produced, not yet on the line
    rxbuf,            \* reply lines received on the live session, not yet read
    session,          \* the Device Connection: "none", "live", "broken", "closed"
    command_timeout,  \* self.scpi.command_timeout
    ask_default_wait, \* self.scpi.ask_default_wait
    epc,              \* the engine: "idle" or "waiting" (a query is in flight)
    deadline,         \* the wait bound of the query in flight
    elapsed,          \* the time the query in flight has waited
    hist,             \* one record per engine operation started, in order
    closes,           \* one record per close() call, in order
    conns,            \* several Device Connections side by side
    calc,             \* one application of a helper function of the driver
    drv,              \* one call of a high level function: its frame
    instr             \* the instrument's test mode, device state and settings

\* The variables of the other specifications of this module.
otherVars == <<conns, calc, drv, instr>>

vars == <<bpc, bfail, handles, instrBaud, errq, pending, rxbuf, session,
          command_timeout, ask_default_wait, epc, deadline, elapsed, hist,
          closes, otherVars>>

bootVars == <<bpc, bfail>>
devVars == <<session, command_timeout, ask_default_wait>>
engVars == <<epc, deadline, elapsed, hist>>
lineVars == <<instrBaud, errq, pending, rxbuf>>

Bauds == {DefaultBaud, TargetBaud}

\* ----------------------------------------------------------- serial handle
\* pyserial.Serial(port, baud, timeout=0): an open handle at one rate; tx is
\* what was written to it, rx what was read from it.
Serial(baud) == [baud |-> baud, open |-> TRUE, tx |-> <<>>, rx |-> <<>>]

\* Fault variant: a close that releases nothing.
NoCloseHandle(h) == h

\* serial_port.close()
CloseHandle(h) == [h EXCEPT !.open = FALSE]

\* serial_port.write(line), the write having succeeded
WriteHandle(h, line) == [h EXCEPT !.tx = Append(@, line)]

OpenHandles == {i \in 1..Len(handles) : handles[i].open}

\* The handle the bootstrap holds in serial_port: the last one created.
Cur == Len(handles)

\* The instrument decodes a line only when the session's rate is its own.
Hears(h) == h.open /\ h.baud = instrBaud

\* ------------------------------------------------------- rs232(): bootstrap
\* Fault variant: a failed statement restarts the bootstrap.
RaiseAndRetry(step) ==
    /\ bpc' = "Unknown"
    /\ bfail' = step
    /\ UNCHANGED <<handles, lineVars, devVars, engVars>>

\* A statement of rs232() raised: nothing catches it, the call ends there.
Raise(step) ==
    /\ bpc' = "Raised"
    /\ bfail' = step
    /\ UNCHANGED <<handles, lineVars, devVars, engVars>>

\* serial_port = pyserial.Serial(port, 2400, timeout=0, **kwargs)
BootOpenProbe ==
    /\ bpc = "Unknown"
    /\ \E ok \in BOOLEAN :
         IF ok
         THEN /\ handles' = Append(handles, Serial(DefaultBaud))
              /\ bpc' = "ProbeOpened"
              /\ UNCHANGED <<bfail, lineVars, devVars, engVars>>
         ELSE Raise("OpenProbe")
    /\ UNCHANGED <<closes, otherVars>>

\* serial_port.write(b"\n")
BootProbeJunk ==
    /\ bpc = "ProbeOpened"
    /\ \E ok \in BOOLEAN :
         IF ok
         THEN /\ handles' = [handles EXCEPT ![Cur] = WriteHandle(@, "NL")]
              /\ bpc' = "ProbeFlushed"
              /\ UNCHANGED <<bfail, lineVars, devVars, engVars>>
         ELSE Raise("ProbeJunk")
    /\ UNCHANGED <<closes, otherVars>>

\* Fault variant: the baud directive followed by an error-queue query.
BootProbeBaudChecked ==
    /\ bpc = "ProbeFlushed"
    /\ \E ok \in BOOLEAN, accepted \in BOOLEAN :
         IF ok
         THEN /\ handles' = [handles EXCEPT
                    ![Cur] = WriteHandle(WriteHandle(@, "BAUD"), "ERRQ")]
              /\ instrBaud' = IF Hears(handles[Cur]) /\ accepted
                              THEN TargetBaud ELSE instrBaud
              /\ bpc' = "ProbeBaudSent"
              /\ UNCHANGED <<bfail, errq, pending, rxbuf, devVars, engVars>>
         ELSE Raise("ProbeBaud")
    /\ UNCHANGED <<closes, otherVars>>

\* serial_port.write(b":SYSTem:COMMunicate:SERial:BAUD 9600\n")
\* An instrument that decodes the line switches its rate, or rejects the
\* directive; one running at another rate sees garbage.  Nothing is read.
BootProbeBaud ==
    /\ bpc = "ProbeFlushed"
    /\ \E ok \in BOOLEAN, accepted \in BOOLEAN :
         IF ok
         THEN /\ handles' = [handles EXCEPT ![Cur] = WriteHandle(@, "BAUD")]
              /\ instrBaud' = IF Hears(handles[Cur]) /\ accepted
                              THEN TargetBaud ELSE instrBaud
              /\ bpc' = "ProbeBaudSent"
              /\ UNCHANGED <<bfail, errq, pending, rxbuf, devVars, engVars>>
         ELSE Raise("ProbeBaud")
    /\ UNCHANGED <<closes, otherVars>>

\* serial_port.close()
BootProbeClose ==
    /\ bpc = "ProbeBaudSent"
    /\ \E ok \in BOOLEAN :
         IF ok
         THEN /\ handles' = [handles EXCEPT ![Cur] = CloseHandle(@)]
              /\ bpc' = "ProbeClosed"
              /\ UNCHANGED <<bfail, lineVars, devVars, engVars>>
         ELSE Raise("ProbeClose")
    /\ UNCHANGED <<closes, otherVars>>

\* serial_port = pyserial.Serial(port, 9600, timeout=0, **kwargs)
\* transport = serial_transport(serial_port)
BootOpenTarget ==
    /\ bpc = "ProbeClosed"
    /\ \E ok \in BOOLEAN :
         IF ok
         THEN /\ handles' = Append(handles, Serial(TargetBaud))
              /\ bpc' = "TargetOpened"
              /\ UNCHANGED <<bfail, lineVars, devVars, engVars>>
         ELSE Raise("OpenTarget")
    /\ UNCHANGED <<closes, otherVars>>

\* serial_port.write(b"\n"); return transport
BootTargetJunk ==
    /\ bpc = "TargetOpened"
    /\ \E ok \in BOOLEAN :
         IF ok
         THEN /\ handles' = [handles EXCEPT ![Cur] = WriteHandle(@, "NL")]
              /\ bpc' = "Returned"
              /\ UNCHANGED <<bfail, lineVars, devVars, engVars>>
         ELSE Raise("TargetJunk")
    /\ UNCHANGED <<closes, otherVars>>

\* The outcomes of the bootstrap, in the words of the negotiation protocol.
Negotiated == bpc = "Returned"
NegotiationFailed == bpc = "Raised"

\* ------------------------------------------------------ Device Connection
\* cmd57(transport): __init__ over the transport rs232() returned.
cmd57_init ==
    /\ bpc = "Returned"
    /\ session = "none"
    /\ session' = "live"
    /\ command_timeout' = InitCommandTimeout
    /\ ask_default_wait' = InitAskDefaultWait
    /\ UNCHANGED <<bootVars, handles, lineVars, engVars>>
    /\ UNCHANGED <<closes, otherVars>>

\* One record per operation: what was called, how it ended, the reply line it
\* read, the lines it wrote, its argument and its return value.
NoLine == [for |-> 0, val |-> "none"]
Op(op, out, wrote, arg, ret) ==
    [op |-> op, out |-> out, val |-> NoLine, wrote |-> wrote,
     arg |-> arg, ret |-> ret]

\* Fault variant: the engine does not look at the closed flag.
ClosedNotChecked == FALSE

\* The connection was closed: it must not be used any more.
Closed == session = "closed"

\* Fault variant: a call does not wait for the operation in flight.
CanCallPipelined ==
    /\ session # "none"
    /\ Len(hist) < MaxOps

\* A call is made on a constructed device, and only when the one before it
\* has returned: every operation blocks its caller.
CanCall ==
    /\ session # "none"
    /\ epc = "idle"
    /\ Len(hist) < MaxOps

TimeoutInputs ==
    (1..MaxTimeoutInput) \cup {SetTimeoutDefaultArg, InitCommandTimeout}

\* Fault variant: set_timeout returning the value it has just stored.
SetTimeoutReturnsNew(s) ==
    /\ CanCall
    /\ command_timeout' = s
    /\ hist' = Append(hist, Op("set_timeout", "Ok", <<>>, s, s))
    /\ UNCHANGED <<bootVars, handles, lineVars, session, ask_default_wait,
                   epc, deadline, elapsed>>
    /\ UNCHANGED <<closes, otherVars>>

\* Fault variant: set_timeout returning the old value without storing the new.
SetTimeoutNotStored(s) ==
    /\ CanCall
    /\ hist' = Append(hist, Op("set_timeout", "Ok", <<>>, s, command_timeout))
    /\ UNCHANGED <<bootVars, handles, lineVars, session, command_timeout,
                   ask_default_wait, epc, deadline, elapsed>>
    /\ UNCHANGED <<closes, otherVars>>

\* old = self.scpi.command_timeout; self.scpi.command_timeout = s; return old
SetTimeout(s) ==
    /\ CanCall
    /\ command_timeout' = s
    /\ hist' = Append(hist, Op("set_timeout", "Ok", <<>>, s, command_timeout))
    /\ UNCHANGED <<bootVars, handles, lineVars, session, ask_default_wait,
                   epc, deadline, elapsed>>
    /\ UNCHANGED <<closes, otherVars>>

\* ------------------------------------------------ Command/Response Engine
\* The instrument's reaction to a line it decodes.  A query is answered with
\* the query's own data, in the shape the caller expects ("V") or not ("G");
\* a directive is carried out or leaves a fault code in
\* the error queue; the error-queue query drains one code, and reads zero or
\* an empty line when the queue is empty.
ReplyTo(id, v) == [for |-> id, val |-> v]

\* The wait bound a query starts with: command_timeout as it is now.
WaitBound == command_timeout

\* ask(text, shape): [wait default_wait;] write the query; then read one reply
\* line within command_timeout (AskReply, AskTimeout).
Ask ==
    /\ CanCall
    /\ LET id == Len(hist) + 1 IN
       \E ok \in BOOLEAN, wellformed \in BOOLEAN :
         IF Closed
         THEN /\ hist' = Append(hist, Op("ask", "ConnectionClosed", <<>>, 0, 0))
              /\ UNCHANGED <<bootVars, handles, lineVars, devVars, epc,
                             deadline, elapsed>>
         ELSE IF session = "broken" \/ ~ok
         THEN /\ hist' = Append(hist, Op("ask", "TransportError", <<>>, 0, 0))
              /\ session' = "broken"
              /\ UNCHANGED <<bootVars, handles, lineVars, command_timeout,
                             ask_default_wait, epc, deadline, elapsed>>
         ELSE /\ handles' = [handles EXCEPT ![Cur] = WriteHandle(@, "Q")]
              /\ pending' = IF Hears(handles[Cur])
                            THEN Append(pending,
                                   ReplyTo(id, IF wellformed THEN "V"
                                               ELSE "G"))
                            ELSE pending
              /\ hist' = Append(hist, Op("ask", "waiting", <<"Q">>, 0, 0))
              /\ epc' = "waiting"
              /\ deadline' = WaitBound
              /\ elapsed' = 0
              /\ UNCHANGED <<bootVars, instrBaud, errq, rxbuf, devVars>>
    /\ UNCHANGED <<closes, otherVars>>

\* send_directive_unchecked(text): write the directive, nothing else.
SendDirectiveUnchecked ==
    /\ CanCall
    /\ \E ok \in BOOLEAN, rejected \in BOOLEAN :
         IF Closed
         THEN /\ hist' = Append(hist, Op("send_directive_unchecked",
                                         "ConnectionClosed", <<>>, 0, 0))
              /\ UNCHANGED <<bootVars, handles, lineVars, devVars, epc,
                             deadline, elapsed>>
         ELSE IF session = "broken" \/ ~ok
         THEN /\ hist' = Append(hist, Op("send_directive_unchecked",
                                         "TransportError", <<>>, 0, 0))
              /\ session' = "broken"
              /\ UNCHANGED <<bootVars, handles, lineVars, command_timeout,
                             ask_default_wait, epc, deadline, elapsed>>
         ELSE /\ handles' = [handles EXCEPT ![Cur] = WriteHandle(@, "D")]
              /\ errq' = IF Hears(handles[Cur]) /\ rejected
                         THEN errq + 1 ELSE errq
              /\ hist' = Append(hist, Op("send_directive_unchecked", "Ok",
                                         <<"D">>, 0, 0))
              /\ UNCHANGED <<bootVars, instrBaud, pending, rxbuf, devVars,
                             epc, deadline, elapsed>>
    /\ UNCHANGED <<closes, otherVars>>

\* send_directive(text): write the directive, then issue the error-queue query
\* and read its reply like any query's (AskReply, AskTimeout).
SendDirective ==
    /\ CanCall
    /\ LET id == Len(hist) + 1 IN
       \E ok \in BOOLEAN, ok2 \in BOOLEAN, rejected \in BOOLEAN,
          empty \in BOOLEAN :
         IF Closed
         THEN /\ hist' = Append(hist, Op("send_directive", "ConnectionClosed",
                                         <<>>, 0, 0))
              /\ UNCHANGED <<bootVars, handles, lineVars, devVars, epc,
                             deadline, elapsed>>
         ELSE IF session = "broken" \/ ~ok
         THEN /\ hist' = Append(hist, Op("send_directive", "TransportError",
                                         <<>>, 0, 0))
              /\ session' = "broken"
              /\ UNCHANGED <<bootVars, handles, lineVars, command_timeout,
                             ask_default_wait, epc, deadline, elapsed>>
         ELSE LET hears == Hears(handles[Cur])
                  q1 == IF hears /\ rejected THEN errq + 1 ELSE errq
              IN  IF ~ok2
                  THEN /\ handles' = [handles EXCEPT
                                        ![Cur] = WriteHandle(@, "D")]
                       /\ errq' = q1
                       /\ hist' = Append(hist, Op("send_directive",
                                        "TransportError", <<"D">>, 0, 0))
                       /\ session' = "broken"
                       /\ UNCHANGED <<bootVars, instrBaud, pending, rxbuf,
                                      command_timeout, ask_default_wait,
                                      epc, deadline, elapsed>>
                  ELSE /\ handles' = [handles EXCEPT ![Cur] =
                                 WriteHandle(WriteHandle(@, "D"), "ERRQ")]
                       /\ errq' = IF hears /\ q1 > 0 THEN q1 - 1 ELSE q1
                       /\ pending' =
                            IF ~hears THEN pending
                            ELSE IF q1 > 0
                            THEN Append(pending, ReplyTo(id, "E"))
                            ELSE Append(pending,
                                   ReplyTo(id, IF empty THEN "" ELSE "0"))
                       /\ hist' = Append(hist, Op("send_directive", "waiting",
                                                  <<"D", "ERRQ">>, 0, 0))
                       /\ epc' = "waiting"
                       /\ deadline' = WaitBound
                       /\ elapsed' = 0
                       /\ UNCHANGED <<bootVars, instrBaud, rxbuf, devVars>>
    /\ UNCHANGED <<closes, otherVars>>

\* Fault variant: the error-queue reply is read and not looked at.
OutcomeIgnoresErrorQueue(op, line) == "Ok"

\* How the operation in flight ends on the reply line it read.
Outcome(op, line) ==
    IF op = "send_directive" /\ line.val \notin {"0", ""}
    THEN "InstrumentError"
    ELSE IF op = "ask" /\ line.val = "G"
    THEN "ParseError"
    ELSE "Ok"

\* read_line returned a line: the first one in the receive buffer.
AskReply ==
    /\ epc = "waiting"
    /\ rxbuf # <<>>
    /\ LET id == Len(hist)
           line == Head(rxbuf)
       IN  /\ rxbuf' = Tail(rxbuf)
           /\ handles' = [handles EXCEPT ![Cur].rx = Append(@, line)]
           /\ hist' = [hist EXCEPT ![id].out = Outcome(hist[id].op, line),
                                   ![id].val = line]
    /\ epc' = "idle"
    /\ UNCHANGED <<bootVars, instrBaud, errq, pending, devVars, deadline,
                   elapsed>>
    /\ UNCHANGED <<closes, otherVars>>

\* Fault variant: an elapsed wait reported as a completed read.
TimeoutReturnsPartial == "Ok"

\* What read_line's bounded wait ends in when no line came.
TimeoutSignal == "Timeout"

\* Fault variant: a timeout that gives the session up.
AskTimeoutEndsSession ==
    /\ epc = "waiting"
    /\ rxbuf = <<>>
    /\ elapsed >= deadline
    /\ hist' = [hist EXCEPT ![Len(hist)].out = TimeoutSignal]
    /\ epc' = "idle"
    /\ session' = "broken"
    /\ UNCHANGED <<bootVars, handles, lineVars, command_timeout,
                   ask_default_wait, deadline, elapsed>>
    /\ UNCHANGED <<closes, otherVars>>

\* read_line's max_wait elapsed with no line terminator seen.
AskTimeout ==
    /\ epc = "waiting"
    /\ rxbuf = <<>>
    /\ elapsed >= deadline
    /\ hist' = [hist EXCEPT ![Len(hist)].out = TimeoutSignal]
    /\ epc' = "idle"
    /\ UNCHANGED <<bootVars, handles, lineVars, devVars, deadline, elapsed>>
    /\ UNCHANGED <<closes, otherVars>>

\* Time passes while read_line waits with no line in sight: the rest of the
\* bounded wait runs out.
Tick ==
    /\ epc = "waiting"
    /\ rxbuf = <<>>
    /\ elapsed < deadline
    /\ elapsed' = deadline
    /\ UNCHANGED <<bootVars, handles, lineVars, devVars, epc, deadline, hist>>
    /\ UNCHANGED <<closes, otherVars>>

\* A reply line of the instrument reaches the receive buffer of the live
\* session, at any time: before the wait ends or after it.  With no open
\* session the line is lost.
Deliver ==
    /\ pending # <<>>
    /\ pending' = Tail(pending)
    /\ rxbuf' = IF session = "live" THEN Append(rxbuf, Head(pending))
                ELSE rxbuf
    /\ UNCHANGED <<bootVars, handles, instrBaud, errq, devVars, engVars>>
    /\ UNCHANGED <<closes, otherVars>>

\* One record per close(): how it ended and what it wrote.
CloseRec(out, wrote) == [out |-> out, wrote |-> wrote]

\* Fault variant: a failure of the return-to-local-control directive is
\* raised and the session is left as it was.
CloseRaisesWriteError ==
    /\ session # "none"
    /\ epc = "idle"
    /\ Len(closes) < MaxCloses
    /\ \E ok \in BOOLEAN :
         IF session = "closed"
         THEN /\ closes' = Append(closes, CloseRec("Ok", <<>>))
              /\ UNCHANGED <<bootVars, handles, lineVars, devVars, engVars>>
         ELSE IF ok /\ session = "live"
         THEN /\ handles' = [handles EXCEPT ![Cur] =
                    CloseHandle(WriteHandle(@, "GTL"))]
              /\ session' = "closed"
              /\ rxbuf' = <<>>
              /\ closes' = Append(closes, CloseRec("Ok", <<"GTL">>))
              /\ UNCHANGED <<bootVars, instrBaud, errq, pending,
                             command_timeout, ask_default_wait, engVars>>
         ELSE /\ closes' = Append(closes, CloseRec("TransportError", <<>>))
              /\ UNCHANGED <<bootVars, handles, lineVars, devVars, engVars>>
    /\ UNCHANGED otherVars

\* close(): the return-to-local-control directive, best effort, then the
\* Transport Session is closed.  A closed connection is left as it is.
Close ==
    /\ session # "none"
    /\ epc = "idle"
    /\ Len(closes) < MaxCloses
    /\ \E ok \in BOOLEAN :
         IF session = "closed"
         THEN /\ closes' = Append(closes, CloseRec("Ok", <<>>))
              /\ UNCHANGED <<bootVars, handles, lineVars, devVars, engVars>>
         ELSE /\ handles' = [handles EXCEPT ![Cur] =
                    CloseHandle(IF ok /\ session = "live"
                                THEN WriteHandle(@, "GTL") ELSE @)]
              /\ session' = "closed"
              /\ rxbuf' = <<>>
              /\ closes' = Append(closes,
                    CloseRec("Ok", IF ok /\ session = "live"
                                   THEN <<"GTL">> ELSE <<>>))
              /\ UNCHANGED <<bootVars, instrBaud, errq, pending,
                             command_timeout, ask_default_wait, engVars>>
    /\ UNCHANGED otherVars

\* No high level function has been called, and no instrument is looked at.
NoDrv == [fn |-> "none", args |-> 0, pc |-> "none", cur_mode |-> "",
          dev_state |-> "", sent |-> <<>>, out |-> "none"]
NoInstr == [mode |-> "", state |-> "", got |-> <<>>]

\* No helper function has been applied.
NoCalc == [fn |-> "none", in |-> 0, text |-> <<>>, out |-> 0, done |-> FALSE]

Init ==
    /\ bpc = "Unknown"
    /\ bfail = "none"
    /\ handles = <<>>
    /\ instrBaud \in Bauds
    /\ errq = 0
    /\ pending = <<>>
    /\ rxbuf = <<>>
    /\ session = "none"
    /\ command_timeout = 0
    /\ ask_default_wait = 0
    /\ epc = "idle"
    /\ deadline = 0
    /\ elapsed = 0
    /\ hist = <<>>
    /\ closes = <<>>
    /\ conns = <<>>
    /\ calc = NoCalc
    /\ drv = NoDrv
    /\ instr = NoInstr

Boot ==
    \/ BootOpenProbe
    \/ BootProbeJunk
    \/ BootProbeBaud
    \/ BootProbeClose
    \/ BootOpenTarget
    \/ BootTargetJunk

Device ==
    \/ cmd57_init
    \/ \E s \in TimeoutInputs : SetTimeout(s)
    \/ Close

Engine ==
    \/ Ask
    \/ SendDirective
    \/ SendDirectiveUnchecked
    \/ AskReply
    \/ AskTimeout
    \/ Tick

Next == Boot \/ Device \/ Engine \/ Deliver

Spec == Init /\ [][Next]_vars

\* ------------------------------------------- formatting and reply shapes
\* Text is a sequence of characters.  A number with decimals is held as an
\* integer count of hundredths, so that "1.00", "1.0" and "1" are one value.
mainVars == <<bpc, bfail, handles, instrBaud, errq, pending, rxbuf, session,
              command_timeout, ask_default_wait, epc, deadline, elapsed, hist,
              closes>>

\* Nothing of the connection model is in use.
MainIdle ==
    /\ bpc = "Unknown"
    /\ bfail = "none"
    /\ handles = <<>>
    /\ instrBaud = DefaultBaud
    /\ errq = 0
    /\ pending = <<>>
    /\ rxbuf = <<>>
    /\ session = "none"
    /\ command_timeout = 0
    /\ ask_default_wait = 0
    /\ epc = "idle"
    /\ deadline = 0
    /\ elapsed = 0
    /\ hist = <<>>
    /\ closes = <<>>

DigitChars == <<"0", "1", "2", "3", "4", "5", "6", "7", "8", "9">>
IsDigit(c) == \E d \in 1..Len(DigitChars) : DigitChars[d] = c
DigitChar(d) == DigitChars[d + 1]
CharDigit(c) == (CHOOSE d \in 1..Len(DigitChars) : DigitChars[d] = c) - 1
AllDigits(t) == t # <<>> /\ \A i \in 1..Len(t) : IsDigit(t[i])

RECURSIVE FormatNat(_)
FormatNat(n) ==
    IF n < 10 THEN <<DigitChar(n)>>
    ELSE Append(FormatNat(n \div 10), DigitChar(n % 10))

RECURSIVE ParseNat(_)
ParseNat(t) ==
    IF Len(t) = 1 THEN CharDigit(t[1])
    ELSE 10 * ParseNat(SubSeq(t, 1, Len(t) - 1)) + CharDigit(t[Len(t)])

\* A parsed value, or the ParseError a malformed text ends in.
Parsed(v) == [ok |-> TRUE, v |-> v]
ParseError == [ok |-> FALSE, v |-> 0]

\* An optional number: None, or a value.
None == [has |-> FALSE, v |-> 0]
Some(x) == [has |-> TRUE, v |-> x]

\* Fault variant: "%d" losing the sign.
FormatIntUnsigned(v) == FormatNat(IF v < 0 THEN 0 - v ELSE v)

\* "%d" % v
FormatInt(v) == IF v < 0 THEN <<"-">> \o FormatNat(0 - v) ELSE FormatNat(v)

\* "%.1f" % x and "%.2f" % x, x a count of hundredths that the places hold
\* exactly.
FormatFixed(x, places) ==
    LET a == IF x < 0 THEN 0 - x ELSE x
        whole == FormatNat(a \div 100)
        frac == IF places = 1 THEN <<DigitChar((a % 100) \div 10)>>
                ELSE <<DigitChar((a % 100) \div 10), DigitChar(a % 10)>>
    IN  (IF x < 0 THEN <<"-">> ELSE <<>>) \o whole \o <<".">> \o frac

\* The integer shape: an optional sign and digits.
ParseInt(t) ==
    LET body == IF t # <<>> /\ t[1] \in {"-", "+"} THEN Tail(t) ELSE t
    IN  IF ~AllDigits(body) THEN ParseError
        ELSE IF t[1] = "-" THEN Parsed(0 - ParseNat(body))
        ELSE Parsed(ParseNat(body))

\* The float shape: an optional sign, digits, and up to two decimals.
ParseFloat(t) ==
    LET body == IF t # <<>> /\ t[1] \in {"-", "+"} THEN Tail(t) ELSE t
        dots == {i \in 1..Len(body) : body[i] = "."}
        dot == IF dots = {} THEN Len(body) + 1
               ELSE CHOOSE i \in dots : \A j \in dots : i <= j
        whole == SubSeq(body, 1, dot - 1)
        frac == SubSeq(body, dot + 1, Len(body))
        cents == IF frac = <<>> THEN 0
                 ELSE IF Len(frac) = 1 THEN 10 * ParseNat(frac)
                 ELSE ParseNat(frac)
    IN  IF ~AllDigits(whole) \/ Len(frac) > 2
           \/ (frac # <<>> /\ ~AllDigits(frac))
        THEN ParseError
        ELSE IF t[1] = "-" THEN Parsed(0 - (100 * ParseNat(whole) + cents))
        ELSE Parsed(100 * ParseNat(whole) + cents)

ON == <<"O", "N">>
OFF == <<"O", "F", "F">>

\* Fault variant: the two literals exchanged.
FormatOnOffSwapped(val) == IF val THEN OFF ELSE ON

\* _format_onoff(val): "ON" if val else "OFF"
FormatOnOff(val) == IF val THEN ON ELSE OFF

\* The boolean shape.
ParseBool(t) ==
    IF t = ON THEN Parsed(TRUE)
    ELSE IF t = OFF THEN Parsed(FALSE)
    ELSE ParseError

\* Fault variant: "OFF" for every falsy power, 0.0 included.
FormatPowerOrOffFalsy(power) ==
    IF ~power.has \/ power.v = 0 THEN OFF ELSE FormatFixed(power.v, 1)

\* set_ber_unused_ts_power: "OFF" if power is None else "%.1f" % power
FormatPowerOrOff(power) ==
    IF ~power.has THEN OFF ELSE FormatFixed(power.v, 1)

\* The float-with-off shape.
ParseFloatOnOff(t) ==
    IF t = OFF THEN Parsed(None)
    ELSE LET f == ParseFloat(t)
         IN  IF f.ok THEN Parsed(Some(f.v)) ELSE ParseError

\* ",".join(fields)
RECURSIVE JoinComma(_)
JoinComma(fields) ==
    IF fields = <<>> THEN <<>>
    ELSE IF Len(fields) = 1 THEN fields[1]
    ELSE fields[1] \o <<",">> \o JoinComma(Tail(fields))

\* _format_int_list(val_list): ",".join(["%d" % x for x in val_list])
FormatIntList(vals) == JoinComma([i \in 1..Len(vals) |-> FormatInt(vals[i])])

\* _format_float_list(val_list): ",".join(["%.2f" % x for x in val_list])
FormatFloatList(vals) ==
    JoinComma([i \in 1..Len(vals) |-> FormatFixed(vals[i], 2)])

\* Fault variant: a split that loses the field after the last comma.
RECURSIVE SplitCommaDropLast(_)
SplitCommaDropLast(t) ==
    LET commas == {i \in 1..Len(t) : t[i] = ","}
    IN  IF commas = {} THEN <<>>
        ELSE LET c == CHOOSE i \in commas : \A j \in commas : i <= j
             IN  <<SubSeq(t, 1, c - 1)>>
                    \o SplitCommaDropLast(SubSeq(t, c + 1, Len(t)))

\* The fields of a reply: the text between its commas.
RECURSIVE SplitComma(_)
SplitComma(t) ==
    LET commas == {i \in 1..Len(t) : t[i] = ","}
    IN  IF commas = {} THEN <<t>>
        ELSE LET c == CHOOSE i \in commas : \A j \in commas : i <= j
             IN  <<SubSeq(t, 1, c - 1)>>
                    \o SplitComma(SubSeq(t, c + 1, Len(t)))

\* The list shapes: every field parsed as the element type; an empty reply is
\* the empty list.
ParseField(T, f) == IF T = "int" THEN ParseInt(f) ELSE ParseFloat(f)

ParseList(t, T) ==
    IF t = <<>> THEN Parsed(<<>>)
    ELSE LET fields == SplitComma(t)
             each == [i \in 1..Len(fields) |-> ParseField(T, fields[i])]
         IN  IF \E i \in 1..Len(each) : ~each[i].ok THEN ParseError
             ELSE Parsed([i \in 1..Len(each) |-> each[i].v])

ParseIntList(t) == ParseList(t, "int")
ParseFloatList(t) == ParseList(t, "float")

\* int(c) of a one-character text: ValueError unless c is a digit.
ValueError == [ok |-> FALSE, v |-> 0]

\* parse_io_str(io): None unless io has four characters, else
\* [int(io[1:2]), int(io[3:4])].
ParseIoStr(io) ==
    IF Len(io) # 4 THEN Parsed(None)
    ELSE IF ~IsDigit(io[2]) \/ ~IsDigit(io[4]) THEN ValueError
    ELSE Parsed(Some(<<CharDigit(io[2]), CharDigit(io[4])>>))

\* make_io_str(in_num, out_num): None unless both are 0 or 1, else
\* "I%dO%d" % (in_num, out_num).
MakeIoStr(in_num, out_num) ==
    IF in_num \notin {0, 1} \/ out_num \notin {0, 1} THEN None
    ELSE Some(<<"I">> \o FormatInt(in_num) \o <<"O">> \o FormatInt(out_num))

\* set_io_used: the supported values, character by character.
SupportedIo ==
    {<<"I", "1", "O", "1">>, <<"I", "1", "O", "2">>,
     <<"I", "2", "O", "1">>, <<"I", "2", "O", "2">>}

\* The helper functions and reply shapes, applied to inputs from bounded sets.
MaxInt == 120
MaxListLen == 3
\* set_ber_frames_num: 1 - 50,000 frames.
MinFrames == 1
MaxFrames == 50000
\* set_ber_unused_ts_power: -20.0 to +30.0 dB, in tenths of a dB.
MinUnusedPower == -200
MaxUnusedPower == 300

SeqsUpTo(S, n) == UNION {[1..k -> S] : k \in 0..n}

BoolReplies ==
    {ON, OFF, <<>>, <<"1">>, <<"0">>, <<"o", "n">>, <<"O", "N", "N">>,
     <<"T", "R", "U", "E">>}

\* None, and every power of the stated range in steps of 0.1 dB.
PowerValues ==
    {None} \cup {Some(10 * t) : t \in MinUnusedPower..MaxUnusedPower}

PowerReplies ==
    {OFF, <<>>, ON, <<"o", "f", "f">>, <<"0">>, <<"-", "5">>}
        \cup {FormatFixed(10 * t, 1) : t \in MinUnusedPower..MaxUnusedPower}

IntValues == (0 - MaxInt)..MaxInt \cup MinFrames..MaxFrames
IntLists == SeqsUpTo({-7, 0, 12, 105}, MaxListLen)
MaxConnector == 3
IoStrs ==
    SupportedIo \cup {<<>>, <<"I", "0", "O", "0">>, <<"I", "1", "O">>,
                      <<"I", "x", "O", "1">>, <<"I", "1", "O", "1", "0">>}
IntFields == {<<"-", "7">>, <<"0">>, <<"1", "2">>, <<"x">>}
FloatFields ==
    {<<"1", ".", "0", "0">>, <<"2", ".", "0", "0">>, <<"3", ".", "0", "0">>,
     <<"-", "0", ".", "5", "0">>, <<"n", "a", "n">>}

\* A call of a helper with its input, not yet made.
Call(fn, in) ==
    [fn |-> fn, in |-> in, text |-> <<>>, out |-> 0, done |-> FALSE]

\* The call made: the text on the wire and what the shape reads from it.
Done(text, out) == [calc EXCEPT !.text = text, !.out = out, !.done = TRUE]

FormatCalls ==
    {Call("_format_onoff", val) : val \in BOOLEAN}
        \cup {Call("ask_bool", reply) : reply \in BoolReplies}
        \cup {Call("set_ber_unused_ts_power", power) : power \in PowerValues}
        \cup {Call("ask_float_onoff", reply) : reply \in PowerReplies}
        \cup {Call("set_int", v) : v \in IntValues}
        \cup {Call("_format_int_list", vals) : vals \in IntLists}
        \cup {Call("ask_int_list", fields) :
                fields \in SeqsUpTo(IntFields, MaxListLen)}
        \cup {Call("ask_float_list", fields) :
                fields \in SeqsUpTo(FloatFields, MaxListLen)}
        \cup {Call("parse_io_str", io) : io \in IoStrs}
        \cup {Call("make_io_str", nums) :
                nums \in (0..MaxConnector) \X (0..MaxConnector)}

FormatOnOffCall ==
    /\ calc.fn = "_format_onoff" /\ ~calc.done
    /\ calc' = Done(FormatOnOff(calc.in), ParseBool(FormatOnOff(calc.in)))
    /\ UNCHANGED <<mainVars, conns, drv, instr>>

AskBool ==
    /\ calc.fn = "ask_bool" /\ ~calc.done
    /\ calc' = Done(calc.in, ParseBool(calc.in))
    /\ UNCHANGED <<mainVars, conns, drv, instr>>

SetUnusedPower ==
    /\ calc.fn = "set_ber_unused_ts_power" /\ ~calc.done
    /\ calc' = Done(FormatPowerOrOff(calc.in),
                    ParseFloatOnOff(FormatPowerOrOff(calc.in)))
    /\ UNCHANGED <<mainVars, conns, drv, instr>>

AskFloatOnOff ==
    /\ calc.fn = "ask_float_onoff" /\ ~calc.done
    /\ calc' = Done(calc.in, ParseFloatOnOff(calc.in))
    /\ UNCHANGED <<mainVars, conns, drv, instr>>

SetInt ==
    /\ calc.fn = "set_int" /\ ~calc.done
    /\ calc' = Done(FormatInt(calc.in), ParseInt(FormatInt(calc.in)))
    /\ UNCHANGED <<mainVars, conns, drv, instr>>

SetIntList ==
    /\ calc.fn = "_format_int_list" /\ ~calc.done
    /\ calc' = Done(FormatIntList(calc.in),
                    ParseIntList(FormatIntList(calc.in)))
    /\ UNCHANGED <<mainVars, conns, drv, instr>>

AskIntList ==
    /\ calc.fn = "ask_int_list" /\ ~calc.done
    /\ calc' = Done(JoinComma(calc.in), ParseIntList(JoinComma(calc.in)))
    /\ UNCHANGED <<mainVars, conns, drv, instr>>

AskFloatList ==
    /\ calc.fn = "ask_float_list" /\ ~calc.done
    /\ calc' = Done(JoinComma(calc.in), ParseFloatList(JoinComma(calc.in)))
    /\ UNCHANGED <<mainVars, conns, drv, instr>>

\* parse_io_str(io), and make_io_str over the numbers it returned.
ParseIoStrCall ==
    /\ calc.fn = "parse_io_str" /\ ~calc.done
    /\ LET nums == ParseIoStr(calc.in)
       IN  calc' = Done(calc.in,
                        [parsed |-> nums,
                         made |-> IF nums.ok /\ nums.v.has
                                  THEN MakeIoStr(nums.v.v[1], nums.v.v[2])
                                  ELSE None])
    /\ UNCHANGED <<mainVars, conns, drv, instr>>

\* make_io_str(in_num, out_num)
MakeIoStrCall ==
    /\ calc.fn = "make_io_str" /\ ~calc.done
    /\ LET made == MakeIoStr(calc.in[1], calc.in[2])
       IN  calc' = Done(IF made.has THEN made.v ELSE <<>>, made)
    /\ UNCHANGED <<mainVars, conns, drv, instr>>

FormatInit ==
    /\ MainIdle
    /\ conns = <<>>
    /\ calc \in FormatCalls
    /\ drv = NoDrv
    /\ instr = NoInstr

FormatNext ==
    \/ FormatOnOffCall
    \/ AskBool
    \/ SetUnusedPower
    \/ AskFloatOnOff
    \/ SetInt
    \/ SetIntList
    \/ AskIntList
    \/ AskFloatList
    \/ ParseIoStrCall
    \/ MakeIoStrCall

SpecFormat == FormatInit /\ [][FormatNext]_vars

\* ------------------------------------------------- several connections
\* Every cmd57 object has its own engine object (self.scpi) on its own
\* transport.  conns.dev[c] is connection c; conns.last names the connection
\* and the operation of the latest call.
NumConns == 2
MaxConnWrites == 2

Conns == 1..NumConns

NoConn == [session |-> "none", command_timeout |-> 0, ask_default_wait |-> 0,
           wrote |-> 0]

Called(c, op, out) == [conn |-> c, op |-> op, out |-> out]

\* cmd57(transport): a new object, its own self.scpi set up.
ConnInit(c) ==
    /\ conns.dev[c].session = "none"
    /\ conns' = [dev |-> [conns.dev EXCEPT ![c] =
                            [session |-> "live",
                             command_timeout |-> InitCommandTimeout,
                             ask_default_wait |-> InitAskDefaultWait,
                             wrote |-> 0]],
                 last |-> Called(c, "init", "Ok")]
    /\ UNCHANGED <<mainVars, calc, drv, instr>>

\* Fault variant: command_timeout kept in one place for all connections.
ConnSetTimeoutShared(c, s) ==
    /\ conns.dev[c].session = "live"
    /\ conns' = [dev |-> [d \in Conns |->
                            IF conns.dev[d].session = "none" THEN conns.dev[d]
                            ELSE [conns.dev[d] EXCEPT !.command_timeout = s]],
                 last |-> Called(c, "set_timeout", "Ok")]
    /\ UNCHANGED <<mainVars, calc, drv, instr>>

\* set_timeout on connection c: self.scpi.command_timeout = command_timeout
ConnSetTimeout(c, s) ==
    /\ conns.dev[c].session = "live"
    /\ conns' = [dev |-> [conns.dev EXCEPT ![c].command_timeout = s],
                 last |-> Called(c, "set_timeout", "Ok")]
    /\ UNCHANGED <<mainVars, calc, drv, instr>>

\* ask or send_directive on connection c: a line written on its transport,
\* then a reply, a soft error, or a TransportError that ends its session.
ConnCommand(c, op) ==
    /\ conns.dev[c].session = "live"
    /\ conns.dev[c].wrote < MaxConnWrites
    /\ \E out \in {"Ok", "Timeout", "ParseError", "InstrumentError",
                   "TransportError"} :
         /\ out = "ParseError" => op = "ask"
         /\ out = "InstrumentError" => op = "send_directive"
         /\ conns' = [dev |-> [conns.dev EXCEPT
                                 ![c].wrote = @ + 1,
                                 ![c].session = IF out = "TransportError"
                                                THEN "broken" ELSE @],
                      last |-> Called(c, op, out)]
    /\ UNCHANGED <<mainVars, calc, drv, instr>>

\* An operation on a connection that is closed or broken: Closed, no effect.
ConnRejected(c, op) ==
    /\ conns.dev[c].session \in {"closed", "broken"}
    /\ conns' = [conns EXCEPT !.last = Called(c, op, "Closed")]
    /\ UNCHANGED <<mainVars, calc, drv, instr>>

\* close on connection c.
ConnClose(c) ==
    /\ conns.dev[c].session # "none"
    /\ conns' = [dev |-> [conns.dev EXCEPT ![c].session = "closed"],
                 last |-> Called(c, "close", "Ok")]
    /\ UNCHANGED <<mainVars, calc, drv, instr>>

ConnsInit ==
    /\ MainIdle
    /\ calc = NoCalc
    /\ drv = NoDrv
    /\ instr = NoInstr
    /\ conns = [dev |-> [c \in Conns |-> NoConn], last |-> Called(0, "none", "Ok")]

ConnsNext ==
    \/ \E c \in Conns : ConnInit(c)
    \/ \E c \in Conns, s \in TimeoutInputs : ConnSetTimeout(c, s)
    \/ \E c \in Conns, op \in {"ask", "send_directive"} : ConnCommand(c, op)
    \/ \E c \in Conns, op \in {"ask", "send_directive", "set_timeout"} :
         ConnRejected(c, op)
    \/ \E c \in Conns : ConnClose(c)

SpecConns == ConnsInit /\ [][ConnsNext]_vars

\* ------------------------------------------------------ the command table
\* Every call the driver makes on self.scpi: the source line, the engine
\* function called, the command text up to its format directive, cut into
\* keywords and the separators ":", " ", "?" and "*", and the kind of argument
\* that is formatted onto its end.
CommandTable ==
    <<[line |-> 46, fn |-> "ask_str_list", head |-> <<"*", "OPT", "?">>, arg |-> "none"],
      [line |-> 55, fn |-> "ask_str",
        head |-> <<"ROUTe", ":", "IOConnector", "?">>, arg |-> "none"],
      [line |-> 64, fn |-> "send_command",
        head |-> <<"ROUTe", ":", "IOConnector", " ">>, arg |-> "%s"],
      [line |-> 79, fn |-> "ask_str",
        head |-> <<"CONFigure", ":", "NETWork", ":", "TYPE", "?">>, arg |-> "none"],
      [line |-> 83, fn |-> "send_command",
        head |-> <<"CONFigure", ":", "NETWork", ":", "TYPE", " ">>, arg |-> "%s"],
      [line |-> 87, fn |-> "ask_float",
        head |-> <<"SENSe1", ":", "CORRection", ":", "LOSS", "?">>, arg |-> "none"],
      [line |-> 91, fn |-> "send_command",
        head |-> <<"SENSe1", ":", "CORRection", ":", "LOSS", " ">>, arg |-> "%f"],
      [line |-> 95, fn |-> "ask_float",
        head |-> <<"SOURce1", ":", "CORRection", ":", "LOSS", "?">>, arg |-> "none"],
      [line |-> 99, fn |-> "send_command",
        head |-> <<"SOURce1", ":", "CORRection", ":", "LOSS", " ">>, arg |-> "%f"],
      [line |-> 104, fn |-> "ask_float",
        head |-> <<"SENSe2", ":", "CORRection", ":", "LOSS", "?">>, arg |-> "none"],
      [line |-> 108, fn |-> "send_command",
        head |-> <<"SENSe2", ":", "CORRection", ":", "LOSS", " ">>, arg |-> "%f"],
      [line |-> 112, fn |-> "ask_float",
        head |-> <<"SOURce2", ":", "CORRection", ":", "LOSS", "?">>, arg |-> "none"],
      [line |-> 116, fn |-> "send_command",
        head |-> <<"SOURce2", ":", "CORRection", ":", "LOSS", " ">>, arg |-> "%f"],
      [line |-> 125, fn |-> "ask_int",
        head |-> <<"SENSE", ":", "SIGN", ":", "IDEN", ":", "MCC", "?">>, arg |-> "none"],
      [line |-> 129, fn |-> "ask_int",
        head |-> <<"SENSE", ":", "SIGN", ":", "IDEN", ":", "MNC", "?">>, arg |-> "none"],
      [line |-> 136, fn |-> "ask_int",
        head |-> <<"SENSE", ":", "SIGN", ":", "BSIC", "?">>, arg |-> "none"],
      [line |-> 144, fn |-> "ask_int",
        head |-> <<"CONF", ":", "CHAN", ":", "BTS", ":", "CCCH", ":", "ARFCN", "?">>, arg |-> "none"],
      [line |-> 148, fn |-> "send_command",
        head |-> <<"CONF", ":", "CHAN", ":", "BTS", ":", "CCCH", ":", "ARFCN", " ">>, arg |-> "%d"],
      [line |-> 153, fn |-> "ask_int",
        head |-> <<"CONF", ":", "CHAN", ":", "BTS", ":", "TCH", ":", "ARFCN", "?">>, arg |-> "none"],
      [line |-> 157, fn |-> "send_command",
        head |-> <<"CONF", ":", "CHAN", ":", "BTS", ":", "TCH", ":", "ARFCN", " ">>, arg |-> "%d"],
      [line |-> 162, fn |-> "ask_int",
        head |-> <<"CONF", ":", "CHAN", ":", "BTS", ":", "TCH", ":", "SLOT", "?">>, arg |-> "none"],
      [line |-> 166, fn |-> "send_command",
        head |-> <<"CONF", ":", "CHAN", ":", "BTS", ":", "TCH", ":", "SLOT", " ">>, arg |-> "%d"],
      [line |-> 171, fn |-> "ask_int",
        head |-> <<"CONF", ":", "CHAN", ":", "BTS", ":", "TSC", "?">>, arg |-> "none"],
      [line |-> 175, fn |-> "send_command",
        head |-> <<"CONF", ":", "CHAN", ":", "BTS", ":", "TSC", " ">>, arg |-> "%d"],
      [line |-> 179, fn |-> "ask_float",
        head |-> <<"CONF", ":", "BTS", ":", "POWer", ":", "EXPected", "?">>, arg |-> "none"],
      [line |-> 183, fn |-> "send_command",
        head |-> <<"CONF", ":", "BTS", ":", "POWer", ":", "EXPected", " ">>, arg |-> "%.2f"],
      [line |-> 189, fn |-> "ask_float",
        head |-> <<"CONF", ":", "CHANnel", ":", "BTS", "?">>, arg |-> "none"],
      [line |-> 194, fn |-> "send_command",
        head |-> <<"CONF", ":", "CHANnel", ":", "BTS", " ">>, arg |-> "%.2f"],
      [line |-> 200, fn |-> "ask_str",
        head |-> <<"CONF", ":", "SPEech", ":", "MODE", "?">>, arg |-> "none"],
      [line |-> 214, fn |-> "send_command",
        head |-> <<"CONF", ":", "SPEech", ":", "MODE", " ">>, arg |-> "%s"],
      [line |-> 219, fn |-> "ask_int",
        head |-> <<"CONF", ":", "BTS", ":", "TRANsmit", ":", "TIMing", "?">>, arg |-> "none"],
      [line |-> 224, fn |-> "send_command",
        head |-> <<"CONF", ":", "BTS", ":", "TRANsmit", ":", "TIMing", " ">>, arg |-> "%d"],
      [line |-> 231, fn |-> "ask_str",
        head |-> <<"PROCedure", ":", "SET", ":", "POWer", ":", "BANDwidth", ":", "INPut", "?">>, arg |-> "none"],
      [line |-> 241, fn |-> "send_command",
        head |-> <<"PROCedure", ":", "SET", ":", "POWer", ":", "BANDwidth", ":", "INPut", " ">>, arg |-> "%s"],
      [line |-> 250, fn |-> "ask_int",
        head |-> <<"CONF", ":", "CHAN", ":", "BANalysis", ":", "ARFCn", "?">>, arg |-> "none"],
      [line |-> 254, fn |-> "send_command",
        head |-> <<"CONF", ":", "CHAN", ":", "BANalysis", ":", "ARFCn", " ">>, arg |-> "%d"],
      [line |-> 260, fn |-> "ask_float",
        head |-> <<"CONF", ":", "CHAN", ":", "MODalysis", ":", "ARFCn", ":", "FREQ", "?">>, arg |-> "none"],
      [line |-> 265, fn |-> "send_command",
        head |-> <<"CONF", ":", "CHAN", ":", "MODalysis", ":", "ARFCn", ":", "FREQ", " ">>, arg |-> "%f"],
      [line |-> 270, fn |-> "ask_int",
        head |-> <<"CONF", ":", "CHAN", ":", "BANalysis", ":", "TSC", "?">>, arg |-> "none"],
      [line |-> 274, fn |-> "send_command",
        head |-> <<"CONF", ":", "CHAN", ":", "BANalysis", ":", "TSC", " ">>, arg |-> "%d"],
      [line |-> 279, fn |-> "ask_float",
        head |-> <<"CONF", ":", "BANalysis", ":", "POWer", ":", "EXPected", "?">>, arg |-> "none"],
      [line |-> 283, fn |-> "send_command",
        head |-> <<"CONF", ":", "BANalysis", ":", "POWer", ":", "EXPected", " ">>, arg |-> "%f"],
      [line |-> 290, fn |-> "ask_str",
        head |-> <<"CONF", ":", "BANalysis", ":", "POWer", ":", "BANDwidth", ":", "INPut1", "?">>, arg |-> "none"],
      [line |-> 299, fn |-> "send_command",
        head |-> <<"CONF", ":", "BANalysis", ":", "POWer", ":", "BANDwidth", ":", "INPut1", " ">>, arg |-> "%s"],
      [line |-> 304, fn |-> "ask_str",
        head |-> <<"CONF", ":", "BANalysis", ":", "TRIGger", ":", "MODE", "?">>, arg |-> "none"],
      [line |-> 311, fn |-> "send_command",
        head |-> <<"CONF", ":", "BANalysis", ":", "TRIGger", ":", "MODE", " ">>, arg |-> "%s"],
      [line |-> 322, fn |-> "ask_str", head |-> <<"PROCedure", ":", "SEL", "?">>, arg |-> "none"],
      [line |-> 336, fn |-> "send_command",
        head |-> <<"PROCedure", ":", "SEL", " ">>, arg |-> "%s"],
      [line |-> 340, fn |-> "send_command",
        head |-> <<"PROCedure", ":", "SYNChronize">>, arg |-> "none"],
      [line |-> 346, fn |-> "ask_str",
        head |-> <<"PROCedure", ":", "BTSState", "?">>, arg |-> "none"],
      [line |-> 356, fn |-> "send_command",
        head |-> <<"PROCedure", ":", "BTSState", " ">>, arg |-> "%s"],
      [line |-> 372, fn |-> "send_command",
        head |-> <<"CONF", ":", "BER", ":", "SEL", " ", "BER">>, arg |-> "%d"],
      [line |-> 379, fn |-> "ask_str",
        head |-> <<"CONF", ":", "BER", ":", "SEL", "?">>, arg |-> "none"],
      [line |-> 393, fn |-> "send_command",
        head |-> <<"CALCulate", ":", "LIMit", ":", "BER", ":", "CLIB", ":", "MEVents", " ">>, arg |-> "%d"],
      [line |-> 400, fn |-> "ask_int",
        head |-> <<"CALCulate", ":", "LIMit", ":", "BER", ":", "CLIB", ":", "MEVents", "?">>, arg |-> "none"],
      [line |-> 406, fn |-> "send_command",
        head |-> <<"CALCulate", ":", "LIMit", ":", "BER", ":", "CLII", ":", "MEVents", " ">>, arg |-> "%d"],
      [line |-> 413, fn |-> "ask_int",
        head |-> <<"CALCulate", ":", "LIMit", ":", "BER", ":", "CLII", ":", "MEVents", "?">>, arg |-> "none"],
      [line |-> 419, fn |-> "send_command",
        head |-> <<"CALCulate", ":", "LIMit", ":", "BER", ":", "EFRames", ":", "MEVents", " ">>, arg |-> "%d"],
      [line |-> 426, fn |-> "ask_int",
        head |-> <<"CALCulate", ":", "LIMit", ":", "BER", ":", "EFRames", ":", "MEVents", "?">>, arg |-> "none"],
      [line |-> 436, fn |-> "send_command",
        head |-> <<"CONF", ":", "BER", ":", "POWer", ":", "USED", " ">>, arg |-> "%.1f"],
      [line |-> 442, fn |-> "ask_float",
        head |-> <<"CONF", ":", "BER", ":", "POWer", ":", "USED", "?">>, arg |-> "none"],
      [line |-> 452, fn |-> "send_command",
        head |-> <<"CONF", ":", "BER", ":", "POWer", ":", "UNUSed", " ">>, arg |-> "OFF or %.1f"],
      [line |-> 461, fn |-> "ask_float_onoff",
        head |-> <<"CONF", ":", "BER", ":", "POWer", ":", "UNUSed", "?">>, arg |-> "none"],
      [line |-> 467, fn |-> "send_command",
        head |-> <<"CONF", ":", "BER", ":", "FRAMestosend", " ">>, arg |-> "%d"],
      [line |-> 473, fn |-> "ask_int",
        head |-> <<"CONF", ":", "BER", ":", "FRAMestosend", "?">>, arg |-> "none"],
      [line |-> 480, fn |-> "ask_int",
        head |-> <<"CONF", ":", "BER", ":", "CLIB", ":", "MSAMples", "?">>, arg |-> "none"],
      [line |-> 487, fn |-> "ask_int",
        head |-> <<"CONF", ":", "BER", ":", "CLII", ":", "MSAMples", "?">>, arg |-> "none"],
      [line |-> 494, fn |-> "ask_int",
        head |-> <<"CONF", ":", "BER", ":", "EFRames", ":", "MSAMples", "?">>, arg |-> "none"],
      [line |-> 501, fn |-> "ask_float",
        head |-> <<"CONF", ":", "BER", ":", "TEST", ":", "TIME", "?">>, arg |-> "none"],
      [line |-> 510, fn |-> "send_command",
        head |-> <<"CONF", ":", "BER", ":", "SCONdition", " ">>, arg |-> "%s"],
      [line |-> 519, fn |-> "ask_str",
        head |-> <<"CONF", ":", "BER", ":", "SCONdition", "?">>, arg |-> "none"],
      [line |-> 525, fn |-> "send_command",
        head |-> <<"CONF", ":", "BER", ":", "HOLDoff", ":", "TIME", " ">>, arg |-> "%.1f"],
      [line |-> 531, fn |-> "ask_float",
        head |-> <<"CONF", ":", "BER", ":", "HOLDoff", ":", "TIME", "?">>, arg |-> "none"],
      [line |-> 542, fn |-> "ask_float",
        head |-> <<"READ", ":", "BER", ":", "CLIB", ":", "BER", "?">>, arg |-> "none"],
      [line |-> 549, fn |-> "ask_int",
        head |-> <<"READ", ":", "BER", ":", "CLIB", ":", "EVENts", "?">>, arg |-> "none"],
      [line |-> 556, fn |-> "ask_float",
        head |-> <<"READ", ":", "BER", ":", "CLIB", ":", "RBER", "?">>, arg |-> "none"],
      [line |-> 562, fn |-> "ask_float",
        head |-> <<"FETCh", ":", "BER", ":", "CLIB", ":", "BER", "?">>, arg |-> "none"],
      [line |-> 568, fn |-> "ask_int",
        head |-> <<"FETCh", ":", "BER", ":", "CLIB", ":", "EVENts", "?">>, arg |-> "none"],
      [line |-> 574, fn |-> "ask_float",
        head |-> <<"FETCh", ":", "BER", ":", "CLIB", ":", "RBER", "?">>, arg |-> "none"],
      [line |-> 581, fn |-> "ask_float",
        head |-> <<"READ", ":", "BER", ":", "CLII", ":", "BER", "?">>, arg |-> "none"],
      [line |-> 588, fn |-> "ask_int",
        head |-> <<"READ", ":", "BER", ":", "CLII", ":", "EVENts", "?">>, arg |-> "none"],
      [line |-> 595, fn |-> "ask_float",
        head |-> <<"READ", ":", "BER", ":", "CLII", ":", "RBER", "?">>, arg |-> "none"],
      [line |-> 601, fn |-> "ask_float",
        head |-> <<"FETCh", ":", "BER", ":", "CLII", ":", "BER", "?">>, arg |-> "none"],
      [line |-> 607, fn |-> "ask_int",
        head |-> <<"FETCh", ":", "BER", ":", "CLII", ":", "EVENts", "?">>, arg |-> "none"],
      [line |-> 613, fn |-> "ask_float",
        head |-> <<"FETCh", ":", "BER", ":", "CLII", ":", "RBER", "?">>, arg |-> "none"],
      [line |-> 620, fn |-> "ask_float",
        head |-> <<"READ", ":", "BER", ":", "EFRames", ":", "FER", "?">>, arg |-> "none"],
      [line |-> 627, fn |-> "ask_int",
        head |-> <<"READ", ":", "BER", ":", "EFRames", ":", "EVENts", "?">>, arg |-> "none"],
      [line |-> 633, fn |-> "ask_float",
        head |-> <<"FETCh", ":", "BER", ":", "EFRames", ":", "FER", "?">>, arg |-> "none"],
      [line |-> 639, fn |-> "ask_int",
        head |-> <<"FETCh", ":", "BER", ":", "EFRames", ":", "EVENts", "?">>, arg |-> "none"],
      [line |-> 645, fn |-> "ask_int",
        head |-> <<"READ", ":", "BER", ":", "CRC", ":", "ERRor", "?">>, arg |-> "none"],
      [line |-> 651, fn |-> "ask_int",
        head |-> <<"FETCh", ":", "BER", ":", "CRC", ":", "ERRor", "?">>, arg |-> "none"],
      [line |-> 665, fn |-> "ask_str",
        head |-> <<"READ", ":", "BER", ":", "TRESult", "?">>, arg |-> "none"],
      [line |-> 678, fn |-> "ask_str",
        head |-> <<"FETCh", ":", "BER", ":", "TRESult", "?">>, arg |-> "none"],
      [line |-> 688, fn |-> "ask_str",
        head |-> <<"CALC", ":", "LIMit", ":", "POWer", ":", "MATChing", "?">>, arg |-> "none"],
      [line |-> 698, fn |-> "ask_float",
        head |-> <<"READ", ":", "BURSt", ":", "POWer", ":", "AVERage", "?">>, arg |-> "none"],
      [line |-> 704, fn |-> "ask_float",
        head |-> <<"FETCh", ":", "BURSt", ":", "POWer", ":", "AVERage", "?">>, arg |-> "none"],
      [line |-> 713, fn |-> "ask_float_list",
        head |-> <<"READ", ":", "ARRay", ":", "BURSt", ":", "POWer", "?">>, arg |-> "none"],
      [line |-> 719, fn |-> "ask_float_list",
        head |-> <<"FETCh", ":", "ARRay", ":", "BURSt", ":", "POWer", "?">>, arg |-> "none"],
      [line |-> 733, fn |-> "ask_str_list",
        head |-> <<"CALCulate", ":", "LIMit", ":", "PHFR", ":", "TOLerance", ":", "MATChing", "?">>, arg |-> "none"],
      [line |-> 744, fn |-> "ask_str_list",
        head |-> <<"CALCulate", ":", "LIMit", ":", "PHFR", ":", "TOLerance", ":", "MATChing", ":", "AVERage", "?">>, arg |-> "none"],
      [line |-> 755, fn |-> "ask_str_list",
        head |-> <<"CALCulate", ":", "LIMit", ":", "PHFR", ":", "TOLerance", ":", "MATChing", ":", "MAXimum", "?">>, arg |-> "none"],
      [line |-> 766, fn |-> "ask_str",
        head |-> <<"CONF", ":", "DECoding", ":", "MODE", "?">>, arg |-> "none"],
      [line |-> 775, fn |-> "send_command",
        head |-> <<"CONF", ":", "DECoding", ":", "MODE", " ">>, arg |-> "%s"],
      [line |-> 785, fn |-> "ask_float",
        head |-> <<"READ", ":", "BURSt", ":", "PHASe", ":", "ERRor", ":", "RMS", "?">>, arg |-> "none"],
      [line |-> 791, fn |-> "ask_float",
        head |-> <<"FETCh", ":", "BURSt", ":", "PHASe", ":", "ERRor", ":", "RMS", "?">>, arg |-> "none"],
      [line |-> 797, fn |-> "ask_float",
        head |-> <<"READ", ":", "BURSt", ":", "PHASe", ":", "ERRor", ":", "PEAK", "?">>, arg |-> "none"],
      [line |-> 803, fn |-> "ask_float",
        head |-> <<"FETCh", ":", "BURSt", ":", "PHASe", ":", "ERRor", ":", "PEAK", "?">>, arg |-> "none"],
      [line |-> 809, fn |-> "ask_float_list",
        head |-> <<"READ", ":", "ARRay", ":", "BURSt", ":", "PHASe", ":", "ERRor", "?">>, arg |-> "none"],
      [line |-> 815, fn |-> "ask_float_list",
        head |-> <<"FETCh", ":", "ARRay", ":", "BURSt", ":", "PHASe", ":", "ERRor", "?">>, arg |-> "none"],
      [line |-> 825, fn |-> "ask_int",
        head |-> <<"READ", ":", "BURSt", ":", "FREQ", ":", "ERRor", "?">>, arg |-> "none"],
      [line |-> 831, fn |-> "ask_int",
        head |-> <<"FETCh", ":", "BURSt", ":", "FREQ", ":", "ERRor", "?">>, arg |-> "none"],
      [line |-> 841, fn |-> "send_command",
        head |-> <<"CALCulate", ":", "LIMit", ":", "SPECtrum", ":", "MODulation", ":", "CLEar">>, arg |-> "none"],
      [line |-> 848, fn |-> "send_command",
        head |-> <<"CALCulate", ":", "LIMit", ":", "SPECtrum", ":", "SWITching", ":", "CLEar">>, arg |-> "none"],
      [line |-> 858, fn |-> "ask_float_list",
        head |-> <<"CALCulate", ":", "LIMit", ":", "SPECtrum", ":", "MODulation", ":", "ABSolute", "?">>, arg |-> "none"],
      [line |-> 867, fn |-> "send_command",
        head |-> <<"CALCulate", ":", "LIMit", ":", "SPECtrum", ":", "MODulation", ":", "ABSolute", " ">>, arg |-> "_format_float_list"],
      [line |-> 878, fn |-> "ask_float_list",
        head |-> <<"CALCulate", ":", "LIMit", ":", "SPECtrum", ":", "MODulation", ":", "RELative", "?">>, arg |-> "none"],
      [line |-> 888, fn |-> "send_command",
        head |-> <<"CALCulate", ":", "LIMit", ":", "SPECtrum", ":", "MODulation", ":", "RELative", " ">>, arg |-> "_format_float_list"],
      [line |-> 899, fn |-> "ask_float_list",
        head |-> <<"CALCulate", ":", "LIMit", ":", "SPECtrum", ":", "SWITching", ":", "ABSolute", "?">>, arg |-> "none"],
      [line |-> 909, fn |-> "send_command",
        head |-> <<"CALCulate", ":", "LIMit", ":", "SPECtrum", ":", "SWITching", ":", "ABSolute", " ">>, arg |-> "_format_float_list"],
      [line |-> 920, fn |-> "ask_float_list",
        head |-> <<"CALCulate", ":", "LIMit", ":", "SPECtrum", ":", "SWITching", ":", "RELative", "?">>, arg |-> "none"],
      [line |-> 930, fn |-> "send_command",
        head |-> <<"CALCulate", ":", "LIMit", ":", "SPECtrum", ":", "SWITching", ":", "RELative", " ">>, arg |-> "_format_float_list"],
      [line |-> 940, fn |-> "ask_str",
        head |-> <<"CALCulate", ":", "LIMit", ":", "SPECtrum", ":", "MODulation", ":", "MATChing", "?">>, arg |-> "none"],
      [line |-> 950, fn |-> "ask_str",
        head |-> <<"CALCulate", ":", "LIMit", ":", "SPECtrum", ":", "SWITching", ":", "MATChing", "?">>, arg |-> "none"],
      [line |-> 962, fn |-> "ask_int",
        head |-> <<"CONF", ":", "SPECtrum", ":", "MODulation", ":", "AVERage", "?">>, arg |-> "none"],
      [line |-> 969, fn |-> "send_command",
        head |-> <<"CONF", ":", "SPECtrum", ":", "MODulation", ":", "AVERage", " ">>, arg |-> "%d"],
      [line |-> 977, fn |-> "ask_int",
        head |-> <<"CONF", ":", "SPECtrum", ":", "SWITching", ":", "AVERage", "?">>, arg |-> "none"],
      [line |-> 984, fn |-> "send_command",
        head |-> <<"CONF", ":", "SPECtrum", ":", "SWITching", ":", "AVERage", " ">>, arg |-> "%d"],
      [line |-> 992, fn |-> "ask_bool",
        head |-> <<"CONF", ":", "SPECtrum", ":", "SWITching", ":", "NOISe", ":", "CORRection", "?">>, arg |-> "none"],
      [line |-> 1000, fn |-> "send_command",
        head |-> <<"CONF", ":", "SPECtrum", ":", "SWITching", ":", "NOISe", ":", "CORRection", " ">>, arg |-> "_format_onoff"],
      [line |-> 1021, fn |-> "ask_float_list",
        head |-> <<"READ", ":", "ARRay", ":", "SPECtrum", ":", "MODulation", "?">>, arg |-> "none"],
      [line |-> 1028, fn |-> "ask_float_list",
        head |-> <<"FETCh", ":", "ARRay", ":", "SPECtrum", ":", "MODulation", "?">>, arg |-> "none"],
      [line |-> 1041, fn |-> "ask_float_list",
        head |-> <<"READ", ":", "ARRay", ":", "SPECtrum", ":", "BTS", ":", "SWITching", "?">>, arg |-> "none"],
      [line |-> 1048, fn |-> "ask_float_list",
        head |-> <<"FETCh", ":", "ARRay", ":", "SPECtrum", ":", "BTS", ":", "SWITching", "?">>, arg |-> "none"],
      [line |-> 1056, fn |-> "ask_float", head |-> <<"READ", ":", "POWer", "?">>, arg |-> "none"],
      [line |-> 1060, fn |-> "ask_float", head |-> <<"FETCh", ":", "POWer", "?">>, arg |-> "none"],
      [line |-> 1064, fn |-> "ask_str", head |-> <<"STATus", ":", "DEVice", "?">>, arg |-> "none"]>>

\* The values the docstrings list for the setters that are handed a text.
CallerTexts ==
    {<<"I1O1">>, <<"I1O2">>, <<"I2O1">>, <<"I2O2">>,
     <<"ECHO">>, <<"LOOP">>, <<"PR9">>, <<"PR11">>, <<"PR15">>, <<"PR16">>,
     <<"HANDset">>, <<"NARRow">>, <<"WIDE">>, <<"POWer">>, <<"FREerun">>,
     <<"NONE">>, <<"MANual">>, <<"SIGNal">>, <<"MODultest">>, <<"BANalysis">>,
     <<"RFM">>, <<"RFGenerator">>, <<"IQSPec">>,
     <<"BIDL">>, <<"BBCH">>, <<"BTCH">>, <<"BEXTernal">>,
     <<"STANdard">>, <<"GATBits">>}

\* Numbers with decimals handed to the setters, in hundredths.
FloatArgs == {-2000, -50, 0, 150, 3000}

\* "%f" % x: six decimals.
FormatF(x) == FormatFixed(x, 2) \o <<"0", "0", "0", "0">>

\* The arguments a call of each kind is made with.
ArgsOf(kind) ==
    CASE kind = "none" -> {0}
      [] kind = "%d" -> {-7, 0, 12, 105}
      [] kind \in {"%f", "%.1f", "%.2f"} -> FloatArgs
      [] kind = "%s" -> CallerTexts
      [] kind = "_format_onoff" -> BOOLEAN
      [] kind = "_format_float_list" -> SeqsUpTo({-50, 150}, MaxListLen - 1)
      [] kind = "OFF or %.1f" -> {None, Some(-2000), Some(0), Some(3000)}

\* The text the format directive puts on the end of the command.
FormatArg(kind, a) ==
    CASE kind = "none" -> <<>>
      [] kind = "%d" -> FormatInt(a)
      [] kind = "%f" -> FormatF(a)
      [] kind = "%.1f" -> FormatFixed(a, 1)
      [] kind = "%.2f" -> FormatFixed(a, 2)
      [] kind = "%s" -> a
      [] kind = "_format_onoff" -> FormatOnOff(a)
      [] kind = "_format_float_list" -> FormatFloatList(a)
      [] kind = "OFF or %.1f" -> FormatPowerOrOff(a)

CommandText(row, a) == row.head \o FormatArg(row.arg, a)

AskFns ==
    {"ask_str", "ask_int", "ask_float", "ask_bool", "ask_float_onoff",
     "ask_str_list", "ask_float_list"}

\* Fault variant: every call routed to the engine's ask.
EngineOpAlwaysAsk(fn) == "ask"

\* The engine operation behind the function called.
EngineOp(fn) == IF fn \in AskFns THEN "ask" ELSE "send_directive"

\* A getter: self.scpi.ask_*(text)
DriverAsk ==
    /\ calc.fn = "command" /\ ~calc.done
    /\ calc.in.row.fn \in AskFns
    /\ calc' = Done(CommandText(calc.in.row, calc.in.a),
                    EngineOp(calc.in.row.fn))
    /\ UNCHANGED <<mainVars, conns, drv, instr>>

\* A setter or an action: self.scpi.send_command(text)
DriverSendCommand ==
    /\ calc.fn = "command" /\ ~calc.done
    /\ calc.in.row.fn = "send_command"
    /\ calc' = Done(CommandText(calc.in.row, calc.in.a),
                    EngineOp(calc.in.row.fn))
    /\ UNCHANGED <<mainVars, conns, drv, instr>>

CommandsInit ==
    /\ MainIdle
    /\ conns = <<>>
    /\ \E i \in 1..Len(CommandTable) :
         \E a \in ArgsOf(CommandTable[i].arg) :
            calc = Call("command", [row |-> CommandTable[i], a |-> a])
    /\ drv = NoDrv
    /\ instr = NoInstr

CommandsNext ==
    \/ DriverAsk
    \/ DriverSendCommand

SpecCommands == CommandsInit /\ [][CommandsNext]_vars

\* ----------------------------------------------------- high level functions
\* One call of a high level function of the driver, statement by statement.
\* Every low level function it calls hands one text to the engine, which
\* returns (a query: the instrument's answer) or raises.
RowAt(line) ==
    CommandTable[CHOOSE i \in 1..Len(CommandTable) :
                    CommandTable[i].line = line]

\* The texts of the low level functions the high level functions call.
ask_test_mode == CommandText(RowAt(322), 0)
set_test_mode(mode) == CommandText(RowAt(336), <<mode>>)
bcch_sync == CommandText(RowAt(340), 0)
set_sync_state(state) == CommandText(RowAt(356), <<state>>)
ask_dev_state == CommandText(RowAt(1064), 0)

\* The instrument: test modes and device states, as its queries report them.
Modes == {"NONE", "MAN", "MOD", "BAN", "RFG"}
DevStates == {"IDLE", "BIDL", "BBCH", "BTCH"}

SwitchFns ==
    {"switch_to_none", "switch_to_idle", "switch_to_mod", "switch_to_ban",
     "switch_to_man", "switch_to_man_bidl", "switch_to_man_bbch",
     "switch_to_man_btch"}

\* The mode each helper hands to _switch_to_x.
SwitchTarget(fn) ==
    CASE fn \in {"switch_to_none", "switch_to_idle"} -> "NONE"
      [] fn = "switch_to_mod" -> "MOD"
      [] fn = "switch_to_ban" -> "BAN"
      [] OTHER -> "MAN"

\* The statement after _switch_to_x has returned to the helper.
AfterSwitch(fn) ==
    IF fn \in {"switch_to_man_bidl", "switch_to_man_bbch", "switch_to_man_btch"}
    THEN "ask_dev_state" ELSE "return"

\* Fault variant: the target mode selected whatever the current mode is.
AfterAskTestModeDirect(fn, cur_mode) ==
    IF cur_mode # SwitchTarget(fn) THEN "set_test_mode" ELSE AfterSwitch(fn)

\* _switch_to_x: if cur_mode != mode: if cur_mode != "NONE": ...
AfterAskTestMode(fn, cur_mode) ==
    IF cur_mode # SwitchTarget(fn)
    THEN IF cur_mode # "NONE" THEN "set_test_mode_none" ELSE "set_test_mode"
    ELSE AfterSwitch(fn)

\* Fault variant: switch_to_man_btch synchronising whatever the state is.
AfterAskDevStateAlwaysSync(fn, dev_state) ==
    CASE fn = "switch_to_man_bidl" ->
           IF dev_state # "BIDL" THEN "set_sync_state" ELSE "return"
      [] fn = "switch_to_man_bbch" ->
           IF dev_state # "BBCH" THEN "bcch_sync" ELSE "return"
      [] OTHER -> "bcch_sync"

\* switch_to_man_bidl, switch_to_man_bbch, switch_to_man_btch: the tests on
\* the device state read.
AfterAskDevState(fn, dev_state) ==
    CASE fn = "switch_to_man_bidl" ->
           IF dev_state # "BIDL" THEN "set_sync_state" ELSE "return"
      [] fn = "switch_to_man_bbch" ->
           IF dev_state # "BBCH" THEN "bcch_sync" ELSE "return"
      [] OTHER ->
           IF dev_state # "BTCH"
           THEN IF dev_state # "BBCH" THEN "bcch_sync" ELSE "set_sync_state"
           ELSE "return"

\* The state the helper hands to set_sync_state.
SyncTarget(fn) == IF fn = "switch_to_man_bidl" THEN "BIDL" ELSE "BTCH"

\* The call goes on at statement pc, or returns.
Goto(pc) == [drv EXCEPT !.pc = pc,
                        !.out = IF pc = "return" THEN "returned" ELSE @]

\* The engine call of the current statement raised: the call ends there.
Raised == [drv EXCEPT !.out = "raised"]

\* The text is handed to the engine.
Sent(d, text) == [d EXCEPT !.sent = Append(@, text)]

\* The instrument carries out PROCedure:SEL: the state it is in afterwards is
\* its own affair.
Select(mode, state) ==
    [instr EXCEPT !.mode = mode,
                  !.state = IF mode = instr.mode THEN @ ELSE state,
                  !.got = Append(@, set_test_mode(mode))]

At(pc) == drv.fn \in SwitchFns /\ drv.out = "running" /\ drv.pc = pc

\* cur_mode = self.ask_test_mode()
AskTestMode ==
    /\ At("ask_test_mode")
    /\ \E ok \in BOOLEAN :
         drv' = IF ok
                THEN Sent([Goto(AfterAskTestMode(drv.fn, instr.mode))
                              EXCEPT !.cur_mode = instr.mode], ask_test_mode)
                ELSE Raised
    /\ UNCHANGED <<mainVars, conns, calc, instr>>

\* self.set_test_mode("NONE")
SetTestModeNone ==
    /\ At("set_test_mode_none")
    /\ \E ok \in BOOLEAN, state \in DevStates :
         IF ok
         THEN /\ drv' = Sent(Goto("set_test_mode"), set_test_mode("NONE"))
              /\ instr' = Select("NONE", state)
         ELSE /\ drv' = Raised
              /\ UNCHANGED instr
    /\ UNCHANGED <<mainVars, conns, calc>>

\* self.set_test_mode(mode)
SetTestMode ==
    /\ At("set_test_mode")
    /\ \E ok \in BOOLEAN, state \in DevStates :
         IF ok
         THEN /\ drv' = Sent(Goto(AfterSwitch(drv.fn)),
                             set_test_mode(SwitchTarget(drv.fn)))
              /\ instr' = Select(SwitchTarget(drv.fn), state)
         ELSE /\ drv' = Raised
              /\ UNCHANGED instr
    /\ UNCHANGED <<mainVars, conns, calc>>

\* dev_state = self.ask_dev_state()
AskDevState ==
    /\ At("ask_dev_state")
    /\ \E ok \in BOOLEAN :
         drv' = IF ok
                THEN Sent([Goto(AfterAskDevState(drv.fn, instr.state))
                              EXCEPT !.dev_state = instr.state], ask_dev_state)
                ELSE Raised
    /\ UNCHANGED <<mainVars, conns, calc, instr>>

\* self.bcch_sync(): the instrument synchronises, or does not find the BCCH.
BcchSync ==
    /\ At("bcch_sync")
    /\ \E ok \in BOOLEAN, synced \in BOOLEAN :
         IF ok
         THEN /\ drv' = Sent(Goto(IF drv.fn = "switch_to_man_btch"
                                  THEN "set_sync_state" ELSE "return"),
                             bcch_sync)
              /\ instr' = [instr EXCEPT
                              !.state = IF synced THEN "BBCH" ELSE @,
                              !.got = Append(@, bcch_sync)]
         ELSE /\ drv' = Raised
              /\ UNCHANGED instr
    /\ UNCHANGED <<mainVars, conns, calc>>

\* self.set_sync_state("BIDL") / self.set_sync_state("BTCH")
SetSyncState ==
    /\ At("set_sync_state")
    /\ \E ok \in BOOLEAN :
         IF ok
         THEN /\ drv' = Sent(Goto("return"), set_sync_state(SyncTarget(drv.fn)))
              /\ instr' = [instr EXCEPT
                              !.state = SyncTarget(drv.fn),
                              !.got = Append(@, set_sync_state(SyncTarget(drv.fn)))]
         ELSE /\ drv' = Raised
              /\ UNCHANGED instr
    /\ UNCHANGED <<mainVars, conns, calc>>

\* configure_mod: its arguments in the order of its if statements, and the
\* line of the low level function each is handed to.
ModArgsArfcnFirst ==
    <<"arfcn", "expected_power", "tsc", "decode", "input_bandwidth",
      "trigger_mode">>

ModArgs ==
    <<"expected_power", "arfcn", "tsc", "decode", "input_bandwidth",
      "trigger_mode">>

ModSetter(arg) ==
    CASE arg = "expected_power" -> RowAt(283)
      [] arg = "arfcn" -> RowAt(254)
      [] arg = "tsc" -> RowAt(274)
      [] arg = "decode" -> RowAt(775)
      [] arg = "input_bandwidth" -> RowAt(299)
      [] arg = "trigger_mode" -> RowAt(311)

\* The statement after the if statement of arg.
AfterModArg(arg) ==
    LET i == CHOOSE j \in 1..Len(ModArgs) : ModArgs[j] = arg
    IN  IF i = Len(ModArgs) THEN "return" ELSE ModArgs[i + 1]

InMod == drv.fn = "configure_mod" /\ drv.out = "running"

\* if <arg> is not None: false
ConfigureModSkip ==
    /\ InMod
    /\ ~drv.args[drv.pc].has
    /\ drv' = Goto(AfterModArg(drv.pc))
    /\ UNCHANGED <<mainVars, conns, calc, instr>>

\* if <arg> is not None: self.set_...(<arg>)
ConfigureModSet ==
    /\ InMod
    /\ drv.args[drv.pc].has
    /\ LET text == CommandText(ModSetter(drv.pc), drv.args[drv.pc].v)
       IN  \E ok \in BOOLEAN :
             IF ok
             THEN /\ drv' = Sent(Goto(AfterModArg(drv.pc)), text)
                  /\ instr' = [instr EXCEPT !.got = Append(@, text)]
             ELSE /\ drv' = Raised
                  /\ UNCHANGED instr
    /\ UNCHANGED <<mainVars, conns, calc>>

\* configure_spectrum_modulation_mask_rel: the limits in dB for the offsets
\* 100, 200, 250, 400, 600, 800, 1000, 1200, 1400, 1600 kHz, in hundredths.
MaskRel(bts_power) ==
    IF bts_power <= 33
    THEN <<50, -3000, -3300, -6000, -6000, -6000, -6000, -6300, -6300, -6300>>
    ELSE IF bts_power <= 35
    THEN <<50, -3000, -3300, -6000, -6200, -6200, -6200, -6500, -6500, -6500>>
    ELSE IF bts_power <= 37
    THEN <<50, -3000, -3300, -6000, -6400, -6400, -6400, -6700, -6700, -6700>>
    ELSE IF bts_power <= 39
    THEN <<50, -3000, -3300, -6000, -6600, -6600, -6600, -6900, -6900, -6900>>
    ELSE IF bts_power <= 41
    THEN <<50, -3000, -3300, -6000, -6800, -6800, -6800, -6800, -7100, -7100>>
    ELSE <<50, -3000, -3300, -6000, -7000, -7000, -7000, -7000, -7300, -7300>>

MinBtsPower == 31
MaxBtsPower == 44
BtsPowers == MinBtsPower..MaxBtsPower

\* self.set_spectrum_modulation_tolerance_rel([...])
ConfigureMaskRel ==
    /\ drv.fn = "configure_spectrum_modulation_mask_rel"
    /\ drv.out = "running"
    /\ LET text == CommandText(RowAt(888), MaskRel(drv.args))
       IN  \E ok \in BOOLEAN :
             IF ok
             THEN /\ drv' = Sent(Goto("return"), text)
                  /\ instr' = [instr EXCEPT !.got = Append(@, text)]
             ELSE /\ drv' = Raised
                  /\ UNCHANGED instr
    /\ UNCHANGED <<mainVars, conns, calc>>

\* A call entered: nothing sent yet, at its first statement.
Frame(fn, args, pc) ==
    [fn |-> fn, args |-> args, pc |-> pc, cur_mode |-> "", dev_state |-> "",
     sent |-> <<>>, out |-> "running"]

Instrument(mode, state) == [mode |-> mode, state |-> state, got |-> <<>>]

\* An argument of configure_mod: left at its default None, or given.
Opt(given, x) == IF given THEN Some(x) ELSE None

DriverInit ==
    /\ MainIdle
    /\ conns = <<>>
    /\ calc = NoCalc
    /\ \/ \E fn \in SwitchFns, mode \in Modes, state \in DevStates :
            /\ drv = Frame(fn, 0, "ask_test_mode")
            /\ instr = Instrument(mode, state)
       \/ \E given \in [{ModArgs[i] : i \in 1..Len(ModArgs)} -> BOOLEAN],
             expected_power \in {0, 3700}, arfcn \in {0, 100} :
            /\ drv = Frame("configure_mod",
                           [expected_power |->
                                Opt(given.expected_power, expected_power),
                            arfcn |-> Opt(given.arfcn, arfcn),
                            tsc |-> Opt(given.tsc, 7),
                            decode |-> Opt(given.decode, <<"STANdard">>),
                            input_bandwidth |->
                                Opt(given.input_bandwidth, <<"NARRow">>),
                            trigger_mode |->
                                Opt(given.trigger_mode, <<"POWer">>)],
                           ModArgs[1])
            /\ instr = Instrument("MOD", "IDLE")
       \/ \E bts_power \in BtsPowers :
            /\ drv = Frame("configure_spectrum_modulation_mask_rel", bts_power,
                           "set_spectrum_modulation_tolerance_rel")
            /\ instr = Instrument("MOD", "IDLE")

DriverNext ==
    \/ AskTestMode
    \/ SetTestModeNone
    \/ SetTestMode
    \/ AskDevState
    \/ BcchSync
    \/ SetSyncState
    \/ ConfigureModSkip
    \/ ConfigureModSet
    \/ ConfigureMaskRel

SpecDriver == DriverInit /\ [][DriverNext]_vars

\* ------------------------------------------------------------ the claims
Ops == 1..Len(hist)

Max(S) == CHOOSE x \in S : \A y \in S : y <= x

\* command_timeout as the calls before operation k left it.
TimeoutBefore(k) ==
    LET S == {j \in 1..(k - 1) : hist[j].op = "set_timeout"}
    IN  IF S = {} THEN InitCommandTimeout ELSE hist[Max(S)].arg

\* The operations that wrote a query and waited for its reply.
Queries == {k \in Ops : "Q" \in {hist[k].wrote[i] : i \in 1..Len(hist[k].wrote)}
                        \/ "ERRQ" \in {hist[k].wrote[i] :
                                          i \in 1..Len(hist[k].wrote)}}

Count(seq, x) == Cardinality({i \in 1..Len(seq) : seq[i] = x})

Ended == Negotiated \/ NegotiationFailed

\* C1: set_timeout(s) returns the command_timeout in force immediately before
\* the call, and the wait of every query issued after it (until the next
\* set_timeout) is bounded by s, not by the value before.
C1_SetTimeoutReturnsPrevious ==
    /\ \A k \in Ops : hist[k].op = "set_timeout"
                         => hist[k].ret = TimeoutBefore(k)
    /\ session # "none" => command_timeout = TimeoutBefore(Len(hist) + 1)
    /\ Queries # {} => /\ deadline = TimeoutBefore(Max(Queries))
                       /\ elapsed <= TimeoutBefore(Max(Queries))

\* C1 witness: a set_timeout narrowed the timeout, and a query issued after it
\* timed out after exactly the new value.
C1_Witness ==
    \E k \in Ops :
        /\ hist[k].op = "set_timeout"
        /\ hist[k].arg < hist[k].ret
        /\ k < Len(hist)
        /\ hist[Len(hist)].op = "ask"
        /\ hist[Len(hist)].out = "Timeout"
        /\ elapsed = hist[k].arg

\* The target-rate session read the instrument's rate back and it is the
\* target rate.
ReadBackMatches ==
    \E i \in 1..Len(handles) :
        /\ handles[i].open
        /\ handles[i].baud = TargetBaud
        /\ "BAUD?" \in {handles[i].tx[j] : j \in 1..Len(handles[i].tx)}
        /\ handles[i].rx # <<>>
        /\ instrBaud = TargetBaud

\* C2: the bootstrap ends in Negotiated, returning a connection, only when the
\* rate read back on the target-rate session is the target rate; with the
\* instrument still at the old rate it ends in NegotiationFailed.
C2_NegotiatedOnlyOnReadBack ==
    /\ Negotiated => ReadBackMatches
    /\ Ended /\ instrBaud # TargetBaud => NegotiationFailed

\* The line written to clear the instrument's input and status.
IsStatusClear(line) == line \in {"NL", "*CLS"}

\* C3: on the session re-opened at the target rate a status-clear directive is
\* written first and a baud-rate read-back query second, before the bootstrap
\* returns.
C3_ClearThenReadBack ==
    Negotiated =>
        /\ Len(handles) = 2
        /\ handles[2].baud = TargetBaud
        /\ Len(handles[2].tx) >= 2
        /\ IsStatusClear(handles[2].tx[1])
        /\ handles[2].tx[2] = "BAUD?"

\* C4: at most one serial handle is open in every reachable state; the probe
\* session is closed before the target-rate session is opened; no handle's
\* rate changes while it is open.
C4_OneHandle ==
    /\ [](/\ Cardinality(OpenHandles) <= 1
          /\ Len(handles) >= 1 => handles[1].baud = DefaultBaud
          /\ Len(handles) >= 2 => /\ ~handles[1].open
                                  /\ handles[2].baud = TargetBaud)
    /\ [][\A i \in 1..Len(handles) :
             handles[i].open => handles'[i].baud = handles[i].baud]_vars

\* C4 witness: the target-rate session is open and the probe session closed.
C4_Witness ==
    /\ Len(handles) = 2
    /\ handles[2].open
    /\ ~handles[1].open

\* C5: a failure of the baud-change directive on the probe session is ignored:
\* the bootstrap still closes the probe session and re-opens at the target
\* rate.
C5_BaudErrorIgnored ==
    bfail = "ProbeBaud" /\ Ended =>
        /\ ~handles[1].open
        /\ Len(handles) = 2

\* C6: a transport-level error in a bootstrap step other than the baud-change
\* directive ends the bootstrap in NegotiationFailed, and nothing is retried:
\* the probe session and the target-rate session are each opened at most once.
C6_FailsWithoutRetry ==
    /\ bfail \notin {"none", "ProbeBaud"} => NegotiationFailed
    /\ NegotiationFailed => bfail # "none"
    /\ Cardinality({i \in 1..Len(handles) :
                      handles[i].baud = DefaultBaud}) <= 1
    /\ Cardinality({i \in 1..Len(handles) :
                      handles[i].baud = TargetBaud}) <= 1

\* C6 witness: the re-open at the target rate failed and the bootstrap ended.
C6_Witness ==
    /\ bfail = "OpenTarget"
    /\ NegotiationFailed
    /\ Len(handles) = 1

\* C7: send_directive writes the directive, then exactly one error-queue
\* query; it fails with InstrumentError when the reply read is non-zero and
\* succeeds when the reply is zero or empty.
C7_SendDirectiveChecksErrorQueue ==
    /\ \A k \in Ops : hist[k].op = "send_directive" =>
          /\ hist[k].out \in {"waiting", "Ok", "InstrumentError", "Timeout"}
                => hist[k].wrote = <<"D", "ERRQ">>
          /\ hist[k].out = "InstrumentError"
                <=> hist[k].val.val \notin {"none", "0", ""}
          /\ hist[k].out = "Ok" <=> hist[k].val.val \in {"0", ""}
    /\ Len(handles) = 2 =>
          /\ Count(handles[2].tx, "ERRQ")
               = Cardinality({k \in Ops : hist[k].op = "send_directive"
                                /\ Len(hist[k].wrote) = 2})
          /\ \A j \in 1..Len(handles[2].tx) :
                handles[2].tx[j] = "ERRQ" => j > 1 /\ handles[2].tx[j - 1] = "D"

\* C7 witness: one send_directive failed on a non-zero reply and another one
\* succeeded on a zero or empty reply.
C7_Witness ==
    \E k, l \in Ops :
        /\ hist[k].op = "send_directive"
        /\ hist[k].out = "InstrumentError"
        /\ hist[k].val.val = "E"
        /\ hist[l].op = "send_directive"
        /\ hist[l].out = "Ok"

\* C8: send_directive_unchecked writes the directive and returns success with
\* no error-queue query and no read, whatever the instrument's error queue
\* holds; nothing is read and no error-queue query is written on the probe
\* session of the bootstrap.
C8_UncheckedNeverReads ==
    /\ \A k \in Ops : hist[k].op = "send_directive_unchecked" =>
          /\ hist[k].out \in {"Ok", "TransportError", "ConnectionClosed"}
          /\ hist[k].val = NoLine
          /\ hist[k].out = "Ok" => hist[k].wrote = <<"D">>
    /\ Len(handles) >= 1 =>
          /\ handles[1].rx = <<>>
          /\ Count(handles[1].tx, "ERRQ") = 0
          /\ Len(handles[1].tx) <= 2
    /\ Len(handles) = 2 =>
          /\ Len(handles[2].rx)
               = Cardinality({k \in Ops : hist[k].val # NoLine})
          /\ Count(handles[2].tx, "D")
               = Cardinality({k \in Ops : Len(hist[k].wrote) >= 1
                                /\ hist[k].wrote[1] = "D"})

\* C8 witness: an unchecked directive returned success while the instrument's
\* error queue held a fault, after a bootstrap that wrote the baud directive.
C8_Witness ==
    /\ \E k \in Ops : /\ hist[k].op = "send_directive_unchecked"
                      /\ hist[k].out = "Ok"
    /\ errq > 0
    /\ handles[1].tx = <<"NL", "BAUD">>

IsCommand(op) == op \in {"ask", "send_directive", "send_directive_unchecked"}

\* C10: after close, every ask, send_directive or send_directive_unchecked
\* fails with a connection-closed error and writes nothing to the transport.
C10_ClosedRejectsCommands ==
    [][session = "closed" /\ Len(hist') > Len(hist)
       /\ IsCommand(hist'[Len(hist')].op)
          => /\ hist'[Len(hist')].out = "ConnectionClosed"
             /\ hist'[Len(hist')].wrote = <<>>
             /\ handles' = handles
             /\ session' = "closed"
             /\ epc' = "idle"]_vars

\* C10 witness: each of the three commands was refused on a closed connection.
C10_Witness ==
    /\ session = "closed"
    /\ \A o \in {"ask", "send_directive", "send_directive_unchecked"} :
          \E k \in Ops : hist[k].op = o /\ hist[k].out = "ConnectionClosed"

\* Everything but the record of the close() calls.
allButCloses == <<bpc, bfail, handles, instrBaud, errq, pending, rxbuf,
                  session, command_timeout, ask_default_wait, epc, deadline,
                  elapsed, hist, otherVars>>

\* C11: close always leaves the Transport Session closed, also when its
\* return-to-local-control directive fails, and it is idempotent: a second
\* close changes no state, writes nothing and raises no error.
C11_CloseIdempotent ==
    /\ [](/\ \A i \in 1..Len(closes) :
                /\ closes[i].out = "Ok"
                /\ i >= 2 => closes[i].wrote = <<>>
          /\ closes # <<>> => /\ session = "closed"
                              /\ OpenHandles = {})
    /\ [][Len(closes') > Len(closes) /\ session = "closed"
             => UNCHANGED allButCloses]_vars

\* C11 witness: the directive of the first close failed on a sound session,
\* the session is closed all the same, and close was called again.
C11_Witness ==
    /\ Len(closes) = 2
    /\ closes[1].wrote = <<>>
    /\ \A k \in Ops : hist[k].out # "TransportError"
    /\ session = "closed"

\* The failures that leave the session as it is.
Soft == {"Timeout", "ParseError", "InstrumentError"}

ReadsReply(op) == op \in {"ask", "send_directive"}

InFlight == {k \in Ops : hist[k].out = "waiting"}

\* C13: at most one command is in flight on a Device Connection in every
\* reachable state: no command is started while a query written before it is
\* still waiting for its reply or its timeout.
C13_OneInFlight ==
    /\ Cardinality(InFlight) <= 1
    /\ InFlight \subseteq {Len(hist)}
    /\ epc = "waiting" <=> InFlight # {}
    /\ epc = "waiting" => session = "live"

\* C13 witness: a query is in flight, its reply not yet received, after two
\* operations that have returned.
C13_Witness ==
    /\ epc = "waiting"
    /\ Len(hist) = 3
    /\ pending # <<>>
    /\ rxbuf = <<>>

\* C14: for the boolean shape ON parses to true, OFF to false and every
\* other reply is a ParseError; parsing what _format_onoff wrote for a
\* boolean gives that boolean back.
C14_BoolShape ==
    /\ (calc.fn = "ask_bool" /\ calc.done) =>
         /\ calc.text = ON => (calc.out.ok /\ calc.out.v = TRUE)
         /\ calc.text = OFF => (calc.out.ok /\ calc.out.v = FALSE)
         /\ calc.text \notin {ON, OFF} => ~calc.out.ok
    /\ (calc.fn = "_format_onoff" /\ calc.done) =>
         /\ calc.text = (IF calc.in THEN ON ELSE OFF)
         /\ calc.out.ok
         /\ calc.out.v = calc.in

C14_Witness ==
    /\ calc.fn = "_format_onoff"
    /\ calc.done
    /\ calc.in = FALSE
    /\ calc.text = OFF
    /\ calc.out.ok

\* C15: for the float-with-off shape None and the text OFF correspond
\* exactly: None is written as OFF and nothing else is, OFF is read as None
\* and nothing else is, and a numeric reply is read as a number.
C15_OffIsNone ==
    /\ (calc.fn = "set_ber_unused_ts_power" /\ calc.done) =>
         /\ ~calc.in.has <=> calc.text = OFF
         /\ calc.out.ok
         /\ calc.out.v.has = calc.in.has
    /\ (calc.fn = "ask_float_onoff" /\ calc.done) =>
         /\ calc.text = OFF => (calc.out.ok /\ ~calc.out.v.has)
         /\ (calc.out.ok /\ ~calc.out.v.has) => calc.text = OFF
         /\ ParseFloat(calc.text).ok =>
              /\ calc.out.ok
              /\ calc.out.v.has
              /\ calc.out.v.v = ParseFloat(calc.text).v

C15_Witness ==
    /\ calc.fn = "set_ber_unused_ts_power"
    /\ calc.done
    /\ ~calc.in.has
    /\ calc.text = OFF
    /\ calc.out.ok
    /\ ~calc.out.v.has

\* C16: a list reply parses to one element per comma-separated field, in
\* reply order, each the parse of its field; a malformed field makes the
\* whole reply a ParseError; the empty reply is the empty list, not an error.
C16_ListShape ==
    /\ (calc.fn = "ask_float_list" /\ calc.done) =>
         /\ calc.text = <<>> => (calc.out.ok /\ calc.out.v = <<>>)
         /\ (\A i \in 1..Len(calc.in) : ParseFloat(calc.in[i]).ok) =>
              /\ calc.out.ok
              /\ Len(calc.out.v) = Len(calc.in)
              /\ \A i \in 1..Len(calc.in) :
                   calc.out.v[i] = ParseFloat(calc.in[i]).v
         /\ (\E i \in 1..Len(calc.in) : ~ParseFloat(calc.in[i]).ok) =>
              ~calc.out.ok
    /\ (calc.fn = "ask_int_list" /\ calc.done) =>
         /\ calc.text = <<>> => (calc.out.ok /\ calc.out.v = <<>>)
         /\ (\A i \in 1..Len(calc.in) : ParseInt(calc.in[i]).ok) =>
              /\ calc.out.ok
              /\ Len(calc.out.v) = Len(calc.in)
              /\ \A i \in 1..Len(calc.in) :
                   calc.out.v[i] = ParseInt(calc.in[i]).v
         /\ (\E i \in 1..Len(calc.in) : ~ParseInt(calc.in[i]).ok) =>
              ~calc.out.ok

C16_Witness ==
    /\ calc.fn = "ask_float_list"
    /\ calc.done
    /\ calc.text = <<"1", ".", "0", "0", ",", "2", ".", "0", "0", ",",
                     "3", ".", "0", "0">>
    /\ calc.out.ok
    /\ calc.out.v = <<100, 200, 300>>

\* C17: parsing the "%d" text of an integer as the integer shape gives the
\* integer, and parsing _format_int_list of a list of integers as a list of
\* integers gives the list, the empty list included.
C17_IntRoundTrip ==
    /\ (calc.fn = "set_int" /\ calc.done) => (calc.out.ok /\ calc.out.v = calc.in)
    /\ (calc.fn = "_format_int_list" /\ calc.done) => (calc.out.ok /\ calc.out.v = calc.in)

C17_Witness ==
    /\ calc.fn = "_format_int_list"
    /\ calc.done
    /\ calc.in = <<-7, 0, 105>>
    /\ calc.text = <<"-", "7", ",", "0", ",", "1", "0", "5">>
    /\ calc.out.ok
    /\ calc.out.v = calc.in

\* The set_timeout calls, and the pairs of them with no set_timeout between.
SetTimeouts == {k \in Ops : hist[k].op = "set_timeout"}
Restores ==
    {p \in SetTimeouts \X SetTimeouts :
        /\ p[1] < p[2]
        /\ \A k \in SetTimeouts : ~(p[1] < k /\ k < p[2])
        /\ hist[p[2]].arg = hist[p[1]].ret}

\* C18: when set_timeout(x) returned old and the next set_timeout is given
\* old, that call returns x, and once it has returned command_timeout is what
\* it was before the first of the two calls.
C18_SaveAndRestore ==
    \A p \in Restores :
        /\ hist[p[2]].ret = hist[p[1]].arg
        /\ hist[p[2]].arg = TimeoutBefore(p[1])
        /\ p[2] = Max(SetTimeouts) => command_timeout = TimeoutBefore(p[1])

\* C18 witness: the timeout narrowed around one query and restored after it.
C18_Witness ==
    /\ <<1, 3>> \in Restores
    /\ hist[1].arg # hist[1].ret
    /\ hist[2].op = "ask"
    /\ hist[3].ret = hist[1].arg
    /\ command_timeout = InitCommandTimeout

\* C19: an operation on one connection leaves the command_timeout, the
\* default wait, the open/closed status and the transport of every other
\* connection as they were.
C19_NoSharedState ==
    [][\A d \in Conns :
         d # conns'.last.conn => conns'.dev[d] = conns.dev[d]]_vars

\* C19 witness: connection 1 had its timeout narrowed, lost its session and
\* was closed, and connection 2, set up before all that, is as it was set up.
C19_Witness ==
    /\ conns.last = Called(1, "close", "Ok")
    /\ conns.dev[1].session = "closed"
    /\ conns.dev[1].command_timeout < InitCommandTimeout
    /\ conns.dev[1].wrote > 0
    /\ conns.dev[2] = [session |-> "live",
                       command_timeout |-> InitCommandTimeout,
                       ask_default_wait |-> InitAskDefaultWait,
                       wrote |-> 0]

EndsInQuery(text) == text # <<>> /\ text[Len(text)] = "?"

\* C20: a command text the driver hands to an ask function ends in "?", and
\* a command text it hands to send_command does not.
C20_QueriesEndInQuestionMark ==
    (calc.fn = "command" /\ calc.done) =>
        /\ calc.in.row.fn \in AskFns => EndsInQuery(calc.text)
        /\ calc.in.row.fn = "send_command" => ~EndsInQuery(calc.text)
        /\ calc.out = "ask" <=> EndsInQuery(calc.text)

\* C20 witness: a directive with a formatted argument, and its query.
C20_Witness ==
    /\ calc.fn = "command"
    /\ calc.done
    /\ calc.in.row.fn = "send_command"
    /\ calc.in.row.arg = "%d"
    /\ calc.text = <<"CONF", ":", "BER", ":", "FRAMestosend", " ", "1", "2">>
    /\ calc.out = "send_directive"
    /\ \E i \in 1..Len(CommandTable) :
         /\ CommandTable[i].fn = "ask_int"
         /\ CommandTable[i].head =
              <<"CONF", ":", "BER", ":", "FRAMestosend", "?">>

\* C26: when the bootstrap has ended without returning a connection, none of
\* the serial handles it opened is open.
C26_NoHandleLeftOpen ==
    NegotiationFailed => OpenHandles = {}

\* C25: for every supported connector value s, parse_io_str(s) is a pair of
\* numbers and make_io_str of that pair is s again; what make_io_str returns,
\* when it returns a text, is a supported connector value.
C25_IoStrInverse ==
    /\ (calc.fn = "parse_io_str" /\ calc.done /\ calc.in \in SupportedIo) =>
         /\ calc.out.parsed.ok
         /\ calc.out.parsed.v.has
         /\ calc.out.made.has
         /\ calc.out.made.v = calc.in
    /\ (calc.fn = "make_io_str" /\ calc.done /\ calc.out.has) =>
         calc.out.v \in SupportedIo

\* The positions in the texts sent by the call of a text, and of the
\* directives that select a test mode.
SentAt(text) == {j \in 1..Len(drv.sent) : drv.sent[j] = text}
Selects == UNION {SentAt(set_test_mode(mode)) : mode \in Modes}
Min(S) == CHOOSE x \in S : \A y \in S : x <= y
InSwitch == drv.fn \in SwitchFns /\ drv.sent # <<>>

\* C21: in a switch_to_* helper, when the mode read equals the target no
\* directive selecting a mode is sent; when it differs and is not NONE the
\* first such directive selects NONE and the target is selected only after
\* it; when it is NONE the target is selected at once.  The instrument never
\* goes from one mode other than NONE straight to another.
C21_SwitchThroughNone ==
    /\ [](InSwitch =>
            /\ drv.sent[1] = ask_test_mode
            /\ Selects \subseteq {2, 3}
            /\ drv.cur_mode = SwitchTarget(drv.fn) => Selects = {}
            /\ (drv.cur_mode # SwitchTarget(drv.fn) /\ drv.cur_mode # "NONE") =>
                 /\ 2 \in Selects => drv.sent[2] = set_test_mode("NONE")
                 /\ 3 \in Selects =>
                      drv.sent[3] = set_test_mode(SwitchTarget(drv.fn))
                 /\ drv.out = "returned" => 3 \in Selects
            /\ (drv.cur_mode # SwitchTarget(drv.fn) /\ drv.cur_mode = "NONE") =>
                 /\ Selects \subseteq {2}
                 /\ 2 \in Selects =>
                      drv.sent[2] = set_test_mode(SwitchTarget(drv.fn))
                 /\ drv.out = "returned" => 2 \in Selects)
    /\ [][instr'.mode # instr.mode =>
             instr.mode = "NONE" \/ instr'.mode = "NONE"]_vars

\* C21 witness: switch_to_mod on an instrument in MAN went through NONE.
C21_Witness ==
    /\ drv.fn = "switch_to_mod"
    /\ drv.out = "returned"
    /\ drv.cur_mode = "MAN"
    /\ drv.sent = <<ask_test_mode, set_test_mode("NONE"), set_test_mode("MOD")>>
    /\ instr.mode = "MOD"

\* C22: in switch_to_man_btch every directive selecting a mode is sent before
\* the device state is asked for, and the instrument is in MAN by then; the
\* synchronisation and the BTCH state directive are sent after it only: none
\* of the two when the state read is BTCH, the state directive alone when it
\* is BBCH, the synchronisation and then the state directive otherwise.
C22_ManBtchOrder ==
    (drv.fn = "switch_to_man_btch" /\ drv.sent # <<>>) =>
        LET asked == SentAt(ask_dev_state)
            syncs == SentAt(bcch_sync)
            states == SentAt(set_sync_state("BTCH"))
            k == Min(asked)
        IN  /\ Cardinality(asked) <= 1
            /\ asked = {} => (syncs = {} /\ states = {})
            /\ asked # {} =>
                 /\ instr.mode = "MAN"
                 /\ \A j \in Selects : j < k
                 /\ drv.dev_state = "BTCH" => (syncs = {} /\ states = {})
                 /\ drv.dev_state = "BBCH" =>
                      /\ syncs = {}
                      /\ states \subseteq {k + 1}
                 /\ drv.dev_state \notin {"BTCH", "BBCH"} =>
                      /\ syncs \subseteq {k + 1}
                      /\ states \subseteq {k + 2}
                      /\ states # {} => syncs # {}
                 /\ (drv.out = "returned" /\ drv.dev_state # "BTCH") =>
                      states # {}
                 /\ Len(drv.sent) <= k + 2

\* C22 witness: from MOD and BIDL the helper sent every directive it can send.
C22_Witness ==
    /\ drv.fn = "switch_to_man_btch"
    /\ drv.out = "returned"
    /\ drv.dev_state = "BIDL"
    /\ drv.sent = <<ask_test_mode, set_test_mode("NONE"), set_test_mode("MAN"),
                    ask_dev_state, bcch_sync, set_sync_state("BTCH")>>

\* The order the arguments of configure_mod are sent in.
ModOrder ==
    <<"expected_power", "arfcn", "tsc", "decode", "input_bandwidth",
      "trigger_mode">>

\* The directives of the arguments that are not None, from the i-th on.
RECURSIVE ModDirectives(_)
ModDirectives(i) ==
    IF i > Len(ModOrder) THEN <<>>
    ELSE (IF drv.args[ModOrder[i]].has
          THEN <<CommandText(ModSetter(ModOrder[i]), drv.args[ModOrder[i]].v)>>
          ELSE <<>>) \o ModDirectives(i + 1)

IsPrefix(p, q) == Len(p) <= Len(q) /\ p = SubSeq(q, 1, Len(p))

\* C23: configure_mod sends the directives of its arguments that are not
\* None, in the order expected power, ARFCN, TSC, decoding mode, input
\* bandwidth, trigger mode, and no other; when a directive fails none is sent
\* after it, and the instrument keeps the ones carried out before.
C23_ConfigureModOrder ==
    drv.fn = "configure_mod" =>
        /\ IsPrefix(drv.sent, ModDirectives(1))
        /\ instr.got = drv.sent
        /\ drv.out = "returned" => drv.sent = ModDirectives(1)
        /\ drv.out = "raised" => Len(drv.sent) < Len(ModDirectives(1))

\* C23 witness: the call of the example program, failed at its fourth
\* directive.
C23_Witness ==
    /\ drv.fn = "configure_mod"
    /\ drv.out = "raised"
    /\ Len(ModDirectives(1)) = Len(ModOrder)
    /\ drv.sent =
         <<<<"CONF", ":", "BANalysis", ":", "POWer", ":", "EXPected", " ",
             "3", "7", ".", "0", "0", "0", "0", "0", "0">>,
           <<"CONF", ":", "CHAN", ":", "BANalysis", ":", "ARFCn", " ",
             "1", "0", "0">>,
           <<"CONF", ":", "CHAN", ":", "BANalysis", ":", "TSC", " ", "7">>>>
    /\ instr.got = drv.sent

\* The limits in the directive configure_spectrum_modulation_mask_rel sent.
SentLimits ==
    ParseFloatList(SubSeq(drv.sent[1], Len(RowAt(888).head) + 1,
                          Len(drv.sent[1]))).v

\* C24: for powers p <= q the limit sent for q is at most the limit sent for
\* p, at each of the 10 offsets.
C24_MaskMonotone ==
    (drv.fn = "configure_spectrum_modulation_mask_rel"
       /\ drv.out = "returned") =>
        /\ Len(SentLimits) = 10
        /\ \A q \in BtsPowers :
             drv.args <= q =>
                \A i \in 1..Len(SentLimits) : MaskRel(q)[i] <= SentLimits[i]

=============================================================================
